---- MODULE Spec2Model ----
(***************************************************************************)
(* A model of the pylumagen connection/protocol engine:                    *)
(*   - TaskManager (utils.py): the name-keyed asyncio task registry,       *)
(*   - Dispatcher (dispatcher.py): invoke_event over its listeners,        *)
(*   - BaseHandler (connection.py): command queue, sender task and close,  *)
(*   - BaseHandler.process_stream + BufferManager: the stream framer,      *)
(*   - DeviceManager (device_manager.py): the connection lifecycle.        *)
(*                                                                         *)
(* asyncio runs one coroutine at a time; coroutines interleave only at     *)
(* their await points.  Every action below is therefore the code between   *)
(* two consecutive suspension points of one coroutine (or one callback of  *)
(* the event loop), and the order in which ready coroutines and callbacks  *)
(* run is left open, as it depends on I/O timing.                          *)
(*                                                                         *)
(* The module holds several specifications, one per component; each keeps  *)
(* the variables of the other components at their initial values.          *)
(***************************************************************************)
EXTENDS Integers, Sequences, FiniteSets, TLC

VARIABLES
    \* ---- TaskManager on its own (SpecTM) ----
    tmReg,      \* TaskManager.active_tasks: name -> task id (NoTask = absent)
    tmTask,     \* the asyncio tasks created through add_task: id -> record
    tmCaller,   \* the coroutine calling cancel_task / cancel_all_tasks
    tmLast,     \* the last TaskManager call and what it returned
    \* ---- Dispatcher (SpecDispatch) ----
    dListeners, \* Dispatcher._listeners[event_type]: sequence of listener kinds
    dFails,     \* the listeners (indices) that raise when run
    dPc,        \* position of the invoke_event coroutine
    dIdx,       \* loop index of invoke_event's for loop
    dTasks,     \* invoke_event's local list `tasks` (indices of async listeners)
    dState,     \* per listener: "idle", "running", "finished", "failed"
    dLog,       \* order in which listeners were started
    \* ---- one connection handler (SpecHandler) ----
    hQueue,     \* ConnectionState.command_queue
    hAccepted,  \* history: the commands queue_command accepted, in arrival order
    hWire,      \* history: the frames handed to self.send, in call order
    hReg,       \* the handler's TaskManager.active_tasks
    hTask,      \* the handler's asyncio tasks: id -> record
    hClose,     \* position of the coroutine running close()
    hCalls,     \* number of queue_command calls made so far
    \* ---- the stream framer (SpecFramer) ----
    frStream,   \* the byte sequence the device sends (an input)
    frPending,  \* the bytes not yet delivered by the transport
    frRd,       \* asyncio.StreamReader buffer: delivered, not yet read
    frBuf,      \* BufferManager.buffer
    frPc,       \* the await process_stream is suspended at
    frMsgs,     \* history: the messages dispatched as DATA_RECEIVED
    \* ---- the DeviceManager lifecycle (Spec) ----
    connection_type,    \* "serial" or "ip"
    status,             \* context.connection.config.status
    handler,            \* context.connection.handler (None or a handler id)
    closing,            \* context.connection.closing
    reconnect_enabled,  \* context.connection.config.reconnect_enabled
    is_alive,           \* system_state.operational_state.is_alive
    cache_alive,        \* is_alive in _cache.data["_cached_operational_state"]
    alive_event,        \* device_state.alive_event is set
    info,               \* device_state.info (NoInfo, or the DeviceInfo learnt)
    debug_disabled,     \* LoggingMixin._disable_debug_logging
    dmReg,              \* context.connection.task_manager.active_tasks
    dmTask,             \* the tasks that task manager created
    dmEvt,              \* running _async_event_handler(CONNECTION_STATE) calls
    hdl,                \* the handlers created so far: transport and own tasks
    dmClose,            \* where DeviceManager.close() is suspended
    \* ---- the inbound pipeline of one connection (SpecInbound) ----
    inStream,     \* the lines the device will still send (an input)
    inRd,         \* the lines in the StreamReader, not yet read
    inReady,      \* the event loop's queue of ready callbacks
    inH,          \* the handle_data_received task and its response
    inReg,        \* the DeviceManager's TaskManager.active_tasks
    inDispatched, \* history: the responses dispatched as DATA_RECEIVED
    inHandled,    \* history: the responses _handle_data_received was run on
    inCk,         \* the _check_device_alive call: position, then result
    inModel,      \* system_state.device_id.model_name
    inWriter,     \* the handler has a writer / transport to send on
    \* ---- one reconnect loop and its budget (SpecReconnect) ----
    rlMax,        \* _reconnect_loop's local max_retries
    rlPc,         \* where the loop is suspended, or how it ended
    rlAttempts,   \* _reconnect_loop's local attempts
    rlOpens,      \* history: the open() calls of the current invocation
    rlPending,    \* a CONNECTED event is scheduled and not handled yet
    rlRuns,       \* number of _reconnect_loop invocations so far
    rlLastOpen,   \* how the invocation's last open() call ended
    \* ---- the buffer and message functions on their own (SpecCodec) ----
    cxIn,         \* the input drawn: a buffer, or a name and fields with their encoding
    cxOut,        \* the result of the function applied to it
    \* ---- several DeviceManager instances in one process (SpecInstances) ----
    twObj,        \* per instance: the objects its context refers to
    twListeners,  \* per Dispatcher object: _listeners
    twReg,        \* per TaskManager object: active_tasks, by the instance that added
    twTasks,      \* the tasks that run: <<instance that added it, name>>
    twSignal,     \* per asyncio.Event object: is_set()
    twCalls       \* history: <<instance whose connection dispatched, instance invoked>>

tmVars   == <<tmReg, tmTask, tmCaller, tmLast>>
dispVars == <<dListeners, dFails, dPc, dIdx, dTasks, dState, dLog>>
hVars    == <<hQueue, hAccepted, hWire, hReg, hTask, hClose, hCalls>>
frVars   == <<frStream, frPending, frRd, frBuf, frPc, frMsgs>>
dmVars   == <<connection_type, info, debug_disabled, status, handler, closing, reconnect_enabled,
               is_alive, cache_alive, alive_event, dmReg, dmTask, dmEvt, hdl, dmClose>>
inVars   == <<inStream, inRd, inReady, inH, inReg, inDispatched, inHandled, inCk,
               inModel, inWriter>>
rlVars   == <<rlMax, rlPc, rlAttempts, rlOpens, rlPending, rlRuns, rlLastOpen>>
cxVars   == <<cxIn, cxOut>>
twVars   == <<twObj, twListeners, twReg, twTasks, twSignal, twCalls>>
vars     == <<tmVars, dispVars, hVars, frVars, dmVars, inVars, rlVars, cxVars, twVars>>

notTmVars   == <<dispVars, hVars, frVars, dmVars, inVars, rlVars, cxVars, twVars>>
notDispVars == <<tmVars, hVars, frVars, dmVars, inVars, rlVars, cxVars, twVars>>
notHVars    == <<tmVars, dispVars, frVars, dmVars, inVars, rlVars, cxVars, twVars>>
notFrVars   == <<tmVars, dispVars, hVars, dmVars, inVars, rlVars, cxVars, twVars>>
notDmVars   == <<tmVars, dispVars, hVars, frVars, inVars, rlVars, cxVars, twVars>>

NoTask == 0

None == 0

(***************************************************************************)
(* Helpers on sequences and sets.                                          *)
(***************************************************************************)
Range(s) == {s[i] : i \in 1..Len(s)}

IsPrefix(s, t) == Len(s) <= Len(t) /\ \A i \in 1..Len(s) : s[i] = t[i]

Min(S) == CHOOSE x \in S : \A y \in S : x <= y

(***************************************************************************)
(* TaskManager: the registry operations, shared by every component.        *)
(***************************************************************************)

\* add_task starts the coroutine only when the name is not in active_tasks.
AddTaskStartsAlways(reg, name) == TRUE

AddTaskStarts(reg, name) == reg[name] = NoTask

\* active_tasks[name] = task
RegPut(reg, name, id) == [reg EXCEPT ![name] = id]

\* active_tasks.pop(name, None): removes whatever task the name maps to.
RegKeep(reg, name) == reg

RegPop(reg, name) == [reg EXCEPT ![name] = NoTask]

\* active_tasks.clear()
RegClear(reg) == [n \in DOMAIN reg |-> NoTask]

\* the tasks active_tasks.values() holds
RegValues(reg) == {reg[n] : n \in DOMAIN reg} \ {NoTask}

(***************************************************************************)
(* SpecTM: a TaskManager driven by arbitrary callers.                      *)
(* A task record: name, st ("free" = id not used yet, "run" = not settled, *)
(* "done" = settled with its done-callbacks still queued on the loop,      *)
(* "gone" = done-callbacks have run), creq (cancel() was requested and not *)
(* yet delivered), out (how it settled).                                   *)
(***************************************************************************)
MaxTmTasks == 3

TmNames == {"x", "y"}

TmIds == 1..MaxTmTasks

TmFreeTask == [name |-> "", st |-> "free", creq |-> FALSE, out |-> "none"]

TmFree == {i \in TmIds : tmTask[i].st = "free"}

TmInit ==
    /\ tmReg = [n \in TmNames |-> NoTask]
    /\ tmTask = [i \in TmIds |-> TmFreeTask]
    /\ tmCaller = [pc |-> "idle", wait |-> {}]
    /\ tmLast = [op |-> "none", name |-> "", ret |-> NoTask, dup |-> FALSE,
                 raised |-> "none", seq |-> 0]

TmCall(op, name, ret, dup, raised) ==
    [op |-> op, name |-> name, ret |-> ret, dup |-> dup, raised |-> raised,
     seq |-> 1 - tmLast.seq]

\* TaskManager.add_task(coro, name)
TmAddTask(n) ==
    /\ IF AddTaskStarts(tmReg, n)
       THEN /\ TmFree # {}
            /\ LET id == Min(TmFree) IN
               /\ tmTask' = [tmTask EXCEPT ![id] =
                      [name |-> n, st |-> "run", creq |-> FALSE, out |-> "none"]]
               /\ tmReg' = RegPut(tmReg, n, id)
               /\ tmLast' = TmCall("add_task", n, id, FALSE, "none")
       ELSE /\ tmLast' = TmCall("add_task", n, tmReg[n], TRUE, "none")
            /\ UNCHANGED <<tmReg, tmTask>>
    /\ UNCHANGED <<tmCaller, notTmVars>>

\* The task's coroutine ends: normally or with an exception; when a cancel
\* was requested, CancelledError is thrown in at its await point, and the
\* coroutine lets it through or, catching it, still ends in one of the
\* other two ways.
TmTaskEnd(id) ==
    /\ tmTask[id].st = "run"
    /\ \E o \in {"ok", "error"} \cup (IF tmTask[id].creq THEN {"cancelled"} ELSE {}) :
         tmTask' = [tmTask EXCEPT ![id].st = "done", ![id].out = o,
                                  ![id].creq = FALSE]
    /\ UNCHANGED <<tmReg, tmCaller, tmLast, notTmVars>>

\* TaskManager._handle_task_completion(task, name), the done-callback.
TmCompletion(id) ==
    /\ tmTask[id].st = "done"
    /\ tmReg' = RegPop(tmReg, tmTask[id].name)
    /\ tmTask' = [tmTask EXCEPT ![id].st = "gone"]
    /\ UNCHANGED <<tmCaller, tmLast, notTmVars>>

\* What `await task` raises for a settled task.
AwaitSwallows(out) == "none"

AwaitRaises(out) == IF out = "ok" THEN "none" ELSE out

\* TaskManager.cancel_task(name), up to its `await task`.
TmCancelTask(n) ==
    /\ tmCaller.pc = "idle"
    /\ tmReg' = RegPop(tmReg, n)
    /\ LET id == tmReg[n] IN
       IF id = NoTask
       THEN /\ tmLast' = TmCall("cancel_task", n, NoTask, FALSE, "none")
            /\ UNCHANGED <<tmTask, tmCaller>>
       ELSE IF tmTask[id].st = "run"
       THEN /\ tmTask' = [tmTask EXCEPT ![id].creq = TRUE]
            /\ tmCaller' = [pc |-> "cancel_task", wait |-> {id}]
            /\ UNCHANGED tmLast
       ELSE \* already settled: cancel() does nothing, the await does not suspend
            /\ tmLast' = TmCall("cancel_task", n, id, FALSE,
                                AwaitRaises(tmTask[id].out))
            /\ UNCHANGED <<tmTask, tmCaller>>
    /\ UNCHANGED notTmVars

\* cancel_task resumes once the awaited task has settled (its done-callbacks,
\* registered by add_task before the await, have run by then).
TmCancelTaskResume ==
    /\ tmCaller.pc = "cancel_task"
    /\ \E id \in tmCaller.wait :
         /\ tmTask[id].st = "gone"
         /\ tmLast' = TmCall("cancel_task", tmTask[id].name, id, FALSE,
                             AwaitRaises(tmTask[id].out))
    /\ tmCaller' = [pc |-> "idle", wait |-> {}]
    /\ UNCHANGED <<tmReg, tmTask, notTmVars>>

\* TaskManager.cancel_all_tasks(), up to its `await asyncio.gather(...)`.
TmCancelAll ==
    /\ tmCaller.pc = "idle"
    /\ tmTask' = [i \in TmIds |->
                    IF i \in RegValues(tmReg) /\ tmTask[i].st = "run"
                    THEN [tmTask[i] EXCEPT !.creq = TRUE] ELSE tmTask[i]]
    /\ IF RegValues(tmReg) = {}
       THEN /\ tmReg' = RegClear(tmReg)
            /\ tmLast' = TmCall("cancel_all_tasks", "", NoTask, FALSE, "none")
            /\ UNCHANGED tmCaller
       ELSE /\ tmCaller' = [pc |-> "cancel_all", wait |-> RegValues(tmReg)]
            /\ UNCHANGED <<tmReg, tmLast>>
    /\ UNCHANGED notTmVars

\* cancel_all_tasks after the gather: clear the registry, re-raise a cancellation.
TmCancelAllResume ==
    /\ tmCaller.pc = "cancel_all"
    /\ \A id \in tmCaller.wait : tmTask[id].st = "gone"
    /\ tmReg' = RegClear(tmReg)
    /\ tmLast' = TmCall("cancel_all_tasks", "", NoTask, FALSE,
                        IF \E id \in tmCaller.wait : tmTask[id].out = "cancelled"
                        THEN "cancelled" ELSE "none")
    /\ tmCaller' = [pc |-> "idle", wait |-> {}]
    /\ UNCHANGED <<tmTask, notTmVars>>

(***************************************************************************)
(* SpecDispatch: Dispatcher.register_listener and Dispatcher.invoke_event  *)
(* for one event type.                                                     *)
(***************************************************************************)
MaxListeners == 3

ListenerKinds == {"sync", "async"}

DInit ==
    /\ dListeners = <<>>
    /\ dFails = {}
    /\ dPc = "reg"
    /\ dIdx = 0
    /\ dTasks = <<>>
    /\ dState = [k \in 1..MaxListeners |-> "idle"]
    /\ dLog = <<>>

\* asyncio.iscoroutinefunction(callback)
IsCoroutineFn(kind) == kind = "async"

\* Dispatcher.register_listener(event_type, callback)
DRegister(kind) ==
    /\ dPc = "reg"
    /\ Len(dListeners) < MaxListeners
    /\ dListeners' = Append(dListeners, kind)
    /\ UNCHANGED <<dFails, dPc, dIdx, dTasks, dState, dLog, notDispVars>>

\* invoke_event is called; which listeners will raise is an input.
DInvoke ==
    /\ dPc = "reg"
    /\ \E f \in SUBSET (1..Len(dListeners)) : dFails' = f
    /\ IF Len(dListeners) = 0
       THEN dPc' = "returned" /\ UNCHANGED dIdx
       ELSE dPc' = "loop" /\ dIdx' = 1
    /\ UNCHANGED <<dListeners, dTasks, dState, dLog, notDispVars>>

\* One iteration of `for callback in self._listeners[event_type]`.
DLoopStep ==
    /\ dPc = "loop"
    /\ dIdx <= Len(dListeners)
    /\ IF IsCoroutineFn(dListeners[dIdx])
       THEN /\ dTasks' = Append(dTasks, dIdx)
            /\ dIdx' = dIdx + 1
            /\ UNCHANGED <<dState, dLog, dPc>>
       ELSE /\ dLog' = Append(dLog, dIdx)
            /\ IF dIdx \in dFails
               THEN /\ dState' = [dState EXCEPT ![dIdx] = "failed"]
                    /\ dPc' = "raised_sync"
                    /\ UNCHANGED dIdx
               ELSE /\ dState' = [dState EXCEPT ![dIdx] = "finished"]
                    /\ dIdx' = dIdx + 1
                    /\ UNCHANGED dPc
            /\ UNCHANGED dTasks
    /\ UNCHANGED <<dListeners, dFails, notDispVars>>

\* `if tasks: await asyncio.gather(*tasks)`
DLoopEnd ==
    /\ dPc = "loop"
    /\ dIdx > Len(dListeners)
    /\ dPc' = IF dTasks # <<>> THEN "gather" ELSE "returned"
    /\ UNCHANGED <<dListeners, dFails, dIdx, dTasks, dState, dLog, notDispVars>>

\* gather has wrapped the coroutines in tasks; each starts when the loop runs it
DAsyncStart(k) ==
    /\ dPc \in {"gather", "raised_gather"}
    /\ k \in Range(dTasks)
    /\ dState[k] = "idle"
    /\ dState' = [dState EXCEPT ![k] = "running"]
    /\ dLog' = Append(dLog, k)
    /\ UNCHANGED <<dListeners, dFails, dPc, dIdx, dTasks, notDispVars>>

DAsyncEnd(k) ==
    /\ dState[k] = "running"
    /\ dState' = [dState EXCEPT ![k] = IF k \in dFails THEN "failed" ELSE "finished"]
    /\ UNCHANGED <<dListeners, dFails, dPc, dIdx, dTasks, dLog, notDispVars>>

\* gather(*tasks) without return_exceptions: its result is set when every
\* child has finished,
GatherFirstDone(tasks, state) == \E i \in 1..Len(tasks) : state[tasks[i]] = "finished"

GatherDone(tasks, state) == \A i \in 1..Len(tasks) : state[tasks[i]] = "finished"

\* and its exception is set as soon as one child raises.
GatherFailed(tasks, state) == \E i \in 1..Len(tasks) : state[tasks[i]] = "failed"

DGatherReturn ==
    /\ dPc = "gather"
    /\ GatherDone(dTasks, dState)
    /\ dPc' = "returned"
    /\ UNCHANGED <<dListeners, dFails, dIdx, dTasks, dState, dLog, notDispVars>>

DGatherRaise ==
    /\ dPc = "gather"
    /\ GatherFailed(dTasks, dState)
    /\ dPc' = "raised_gather"
    /\ UNCHANGED <<dListeners, dFails, dIdx, dTasks, dState, dLog, notDispVars>>

(***************************************************************************)
(* SpecHandler: one connection handler (BaseHandler / IPHandler) after     *)
(* open_connection: its command queue, the "process_next_command" sender   *)
(* task, the "process_stream" task and close().                            *)
(* Commands are sequences of one-character strings.                        *)
(***************************************************************************)
MaxQueueCalls == 2

MaxBatch == 2

MaxHTasks == 3

HNames == {"process_stream", "process_next_command"}

HIds == 1..MaxHTasks

\* the strings a caller may pass to queue_command, alone or in a list
RawCmds == {<<>>, <<"A">>, <<" ", "B", " ">>, <<" ">>}

\* a list entry that is not a str (an int)
IntEntry == <<"int">>

\* isinstance(cmd, str)
IsStr(cmd) == cmd # IntEntry

Batches == UNION {[1..n -> RawCmds \cup {IntEntry}] : n \in 0..MaxBatch}

\* the arguments of queue_command: a str, a list, or a value that is neither;
\* items is the list after `if isinstance(command, str): command = [command]`
Commands ==
    {[type |-> "list", items |-> b] : b \in Batches}
    \cup {[type |-> "str", items |-> <<c>>] : c \in RawCmds}
    \cup {[type |-> "int", items |-> <<>>]}

IsSpace(c) == c \in {" ", "\t", "\n", "\r"}

RECURSIVE LStrip(_)
LStrip(s) == IF s # <<>> /\ IsSpace(Head(s)) THEN LStrip(Tail(s)) ELSE s

RECURSIVE RStrip(_)
RStrip(s) ==
    IF s # <<>> /\ IsSpace(s[Len(s)]) THEN RStrip(SubSeq(s, 1, Len(s) - 1)) ELSE s

\* str.strip()
Strip(s) == RStrip(LStrip(s))

\* valid_commands = [cmd.strip() for cmd in command
\*                   if isinstance(cmd, str) and cmd.strip()]
NormaliseKeepAll(batch) == batch

RECURSIVE Normalise(_)
Normalise(batch) ==
    IF batch = <<>> THEN <<>>
    ELSE IF IsStr(Head(batch)) /\ Strip(Head(batch)) # <<>>
         THEN <<Strip(Head(batch))>> \o Normalise(Tail(batch))
         ELSE Normalise(Tail(batch))

CMD_START == <<"#">>

CMD_TERMINATOR == <<"{">>

\* data = CMD_START + command.encode("utf-8") + CMD_TERMINATOR
Frame(cmd) == CMD_START \o cmd \o CMD_TERMINATOR

\* ConnectionState.sending_command: initialised False and never assigned again
sending_command == FALSE

\* BaseHandler._should_exit_processing()
ShouldExitProcessing(queue) == sending_command \/ queue = <<>>

\* ConnectionState.pop_next_command(): command_queue.popleft()
PopRight(queue) == [cmd |-> queue[Len(queue)], rest |-> SubSeq(queue, 1, Len(queue) - 1)]

PopKeep(queue) == [cmd |-> Head(queue), rest |-> queue]

PopNextCommand(queue) == [cmd |-> Head(queue), rest |-> Tail(queue)]

\* The value of `await self.send(data)`: IPHandler.send and SerialHandler.send
\* return None on every path, which `if not await self.send(data): break`
\* reads as a failure.
SendReturnsTruthy == FALSE

HFreeTask == [name |-> "", st |-> "free", creq |-> FALSE, pc |-> ""]

HFree == {i \in HIds : hTask[i].st = "free"}

\* After open_connection: process_stream is running, nothing is queued.
HInit ==
    /\ hQueue = <<>>
    /\ hAccepted = <<>>
    /\ hWire = <<>>
    /\ hReg = [n \in HNames |-> IF n = "process_stream" THEN 1 ELSE NoTask]
    /\ hTask = [i \in HIds |->
                 IF i = 1 THEN [name |-> "process_stream", st |-> "run",
                                creq |-> FALSE, pc |-> "read"]
                 ELSE HFreeTask]
    /\ hClose = [pc |-> "idle", wait |-> {}]
    /\ hCalls = 0

\* BaseHandler.process_next_command(): the effect on registry and tasks.
\* (The result is the pair the caller assigns to hReg' and hTask'.)
ProcessNextCommand(reg, task) ==
    IF reg["process_next_command"] = NoTask
       /\ AddTaskStarts(reg, "process_next_command")
       /\ {i \in HIds : task[i].st = "free"} # {}
    THEN LET id == Min({i \in HIds : task[i].st = "free"}) IN
         [reg  |-> RegPut(reg, "process_next_command", id),
          task |-> [task EXCEPT ![id] = [name |-> "process_next_command",
                       st |-> "run", creq |-> FALSE, pc |-> "start"]]]
    ELSE [reg |-> reg, task |-> task]

\* a new sender task can be created (the model's pool of task ids is not exhausted)
HCanTrigger == hReg["process_next_command"] # NoTask \/ HFree # {}

\* BaseHandler.queue_command(command)
HQueueCommand(command) ==
    /\ hCalls < MaxQueueCalls
    /\ hClose.pc # "closed"
    /\ HCanTrigger
    /\ hCalls' = hCalls + 1
    /\ IF command.type \notin {"str", "list"}
       THEN \* "Invalid command type": return
            UNCHANGED <<hQueue, hAccepted, hReg, hTask>>
       ELSE LET valid == Normalise(command.items) IN
            IF valid = <<>>
            THEN UNCHANGED <<hQueue, hAccepted, hReg, hTask>>
            ELSE /\ hQueue' = hQueue \o valid
                 /\ hAccepted' = hAccepted \o valid
                 /\ LET r == ProcessNextCommand(hReg, hTask) IN
                    hReg' = r.reg /\ hTask' = r.task
    /\ UNCHANGED <<hWire, hClose, notHVars>>

\* process_stream finishes one inbound message cycle: process_message() ends
\* with self.process_next_command().
HMessageCycle(id) ==
    /\ hTask[id].name = "process_stream"
    /\ hTask[id].st = "run"
    /\ ~hTask[id].creq
    /\ HCanTrigger
    /\ LET r == ProcessNextCommand(hReg, hTask) IN
       hReg' = r.reg /\ hTask' = r.task
    /\ UNCHANGED <<hQueue, hAccepted, hWire, hClose, hCalls, notHVars>>

\* A cancelled task gets CancelledError at its await point and ends.
HTaskCancelled(id) ==
    /\ hTask[id].st = "run"
    /\ hTask[id].creq
    /\ hTask' = [hTask EXCEPT ![id].st = "done", ![id].creq = FALSE]
    /\ UNCHANGED <<hQueue, hAccepted, hWire, hReg, hClose, hCalls, notHVars>>

\* _process_next_command from the top of its while loop to `await self.send`
\* (the lock is free whenever it is taken: it is never held across an await).
HSenderStep(id) ==
    /\ hTask[id].name = "process_next_command"
    /\ hTask[id].st = "run"
    /\ hTask[id].pc = "start"
    /\ ~hTask[id].creq
    /\ IF ShouldExitProcessing(hQueue)
       THEN /\ hTask' = [hTask EXCEPT ![id].st = "done"]
            /\ UNCHANGED <<hQueue, hWire>>
       ELSE LET p == PopNextCommand(hQueue) IN
            /\ hQueue' = p.rest
            /\ hWire' = Append(hWire, Frame(p.cmd))
            /\ hTask' = [hTask EXCEPT ![id].pc = "send"]
    /\ UNCHANGED <<hAccepted, hReg, hClose, hCalls, notHVars>>

\* self.send(data) returns (writer.drain() is over)
HSendReturns(id) ==
    /\ hTask[id].name = "process_next_command"
    /\ hTask[id].st = "run"
    /\ hTask[id].pc = "send"
    /\ ~hTask[id].creq
    /\ IF SendReturnsTruthy
       THEN hTask' = [hTask EXCEPT ![id].pc = "start"]
       ELSE hTask' = [hTask EXCEPT ![id].st = "done"]
    /\ UNCHANGED <<hQueue, hAccepted, hWire, hReg, hClose, hCalls, notHVars>>

\* _handle_task_completion for a settled task; a gather waiting on the task
\* sees it done.  The task id is free for reuse afterwards.
HCompletion(id) ==
    /\ hTask[id].st = "done"
    /\ hReg' = RegPop(hReg, hTask[id].name)
    /\ hTask' = [hTask EXCEPT ![id] = HFreeTask]
    /\ hClose' = [hClose EXCEPT !.wait = @ \ {id}]
    /\ UNCHANGED <<hQueue, hAccepted, hWire, hCalls, notHVars>>

\* BaseHandler.close() up to the gather of cancel_all_tasks()
HCloseStart ==
    /\ hClose.pc = "idle"
    /\ hTask' = [i \in HIds |->
                   IF i \in RegValues(hReg) /\ hTask[i].st = "run"
                   THEN [hTask[i] EXCEPT !.creq = TRUE] ELSE hTask[i]]
    /\ hClose' = [pc |-> "gather", wait |-> RegValues(hReg)]
    /\ UNCHANGED <<hQueue, hAccepted, hWire, hReg, hCalls, notHVars>>

\* cancel_all_tasks() after the gather: active_tasks.clear(); then
\* wait_for_all_tasks() finds the registry empty; IPHandler.close() goes on
\* to writer.close() and awaits wait_closed().
HCloseGathered ==
    /\ hClose.pc = "gather"
    /\ hClose.wait = {}
    /\ hReg' = RegClear(hReg)
    /\ hClose' = [pc |-> "wait_closed", wait |-> {}]
    /\ UNCHANGED <<hQueue, hAccepted, hWire, hTask, hCalls, notHVars>>

\* close() returns
HCloseDone ==
    /\ hClose.pc = "wait_closed"
    /\ hClose' = [pc |-> "closed", wait |-> {}]
    /\ UNCHANGED <<hQueue, hAccepted, hWire, hReg, hTask, hCalls, notHVars>>

(***************************************************************************)
(* SpecFramer: BaseHandler.process_stream over a StreamReader that the     *)
(* transport feeds chunk by chunk.  Strings are sequences of one-character *)
(* strings.  A read that cannot complete either keeps waiting (more bytes  *)
(* may be fed) or, for the two reads under asyncio.wait_for(timeout=0.2),  *)
(* times out.                                                              *)
(***************************************************************************)
MaxStream == 4

FrChars == {"!", "#", "S", "x", "\n"}

Streams == UNION {[1..n -> FrChars] : n \in 1..MaxStream}

UpperToLower ==
    [A |-> "a", B |-> "b", C |-> "c", D |-> "d", E |-> "e", F |-> "f", G |-> "g",
     H |-> "h", I |-> "i", J |-> "j", K |-> "k", L |-> "l", M |-> "m", N |-> "n",
     O |-> "o", P |-> "p", Q |-> "q", R |-> "r", S |-> "s", T |-> "t", U |-> "u",
     V |-> "v", W |-> "w", X |-> "x", Y |-> "y", Z |-> "z"]

\* str.lower()
Lower(s) == [i \in 1..Len(s) |->
               IF s[i] \in DOMAIN UpperToLower THEN UpperToLower[s[i]] ELSE s[i]]

StartsWith(s, p) == Len(p) <= Len(s) /\ SubSeq(s, 1, Len(p)) = p

EndsWith(s, p) == Len(p) <= Len(s) /\ SubSeq(s, Len(s) - Len(p) + 1, Len(s)) = p

\* str.find(sub) + 1: the 1-based index of the first occurrence, 0 if none
Find(s, sub) ==
    LET hits == {i \in 1..(Len(s) - Len(sub) + 1) : SubSeq(s, i, i + Len(sub) - 1) = sub}
    IN IF hits = {} THEN 0 ELSE Min(hits)

\* s[i:] for a 1-based i
From(s, i) == SubSeq(s, i, Len(s))

TERMINATOR == <<"\n">>

\* BufferManager(terminator="\n", ignored_prefixes=("#ZT", "#ZY"))
IgnoredPrefixes == {<<"#", "Z", "T">>, <<"#", "Z", "Y">>}

\* buffer_manager.adjust_buffer(["power", "#ZQS1", "!", "#"])
SyncKeywords == << <<"p", "o", "w", "e", "r">>, <<"#", "Z", "Q", "S", "1">>, <<"!">>, <<"#">> >>

\* buffer_manager.starts_with(("power", "#", "!"))
SentinelPrefixes == {<<"p", "o", "w", "e", "r">>, <<"#">>, <<"!">>}

\* the one-character keys of ASCII_COMMAND_LIST
KeypressKeys ==
    {"%", "$", "M", "X", "U", "!", "i", "L", ":", "P", "e", "p", "r", "m", "k",
     "<", ">", "v", "^", "0", "1", "2", "3", "4", "5", "6", "7", "8", "9", "+",
     "N", "n", "[", "l", "]", "w", "*", "j", "/", "A", "C", "E", "W", "K", "G",
     "a", "b", "c", "d", "g", "s", "V", "?", "S", "Y", "H", "_"}

\* all keys of ASCII_COMMAND_LIST, as strings
CommandKeys == {<<k>> : k \in KeypressKeys} \cup {<<"<", "C", "R", ">">>}

\* BufferManager.is_empty(): not self.buffer.strip()
BufIsEmpty(buf) == Strip(buf) = <<>>

\* BufferManager.starts_with(prefixes): case-insensitive
BufStartsWith(buf, prefixes) == \E p \in prefixes : StartsWith(Lower(buf), Lower(p))

\* BufferManager.ends_with_terminator()
EndsWithTerminator(buf) == EndsWith(buf, TERMINATOR)

\* BufferManager.adjust_buffer(keywords), from keyword number k on
RECURSIVE AdjustFrom(_, _, _)
AdjustFrom(buf, keywords, k) ==
    IF k > Len(keywords) THEN buf
    ELSE LET idx == Find(Lower(buf), Lower(keywords[k])) IN
         IF idx = 0 THEN AdjustFrom(buf, keywords, k + 1)
         ELSE IF keywords[k] = <<"!">> /\ idx = 2 /\ buf[1] = "#" /\ Len(buf) = 2
              THEN buf
              ELSE From(buf, idx)

AdjustBuffer(buf, keywords) == AdjustFrom(buf, keywords, 1)

\* BufferManager.extract_message(): the message (stripped) and the rest
ExtractMessage(buf) ==
    LET pos == Find(buf, TERMINATOR) IN
    IF pos > 0
    THEN [msg |-> Strip(SubSeq(buf, 1, pos + Len(TERMINATOR) - 1)),
          buf |-> From(buf, pos + Len(TERMINATOR))]
    ELSE [msg |-> <<>>, buf |-> buf]

\* process_command_or_keypress(buffer, ASCII_COMMAND_LIST): is there a key?
KeyMatches(buf) ==
    \E key \in CommandKeys : StartsWith(buf, <<"#">> \o key) \/ StartsWith(buf, key)

\* process_message(): extract one message and dispatch it when not empty.
\* (Response.factory builds a generic Response for any name that is not
\* registered, and no registered name can be spelled with FrChars.)
ProcessMessage(buf, msgs) ==
    LET e == ExtractMessage(buf) IN
    [buf |-> e.buf, msgs |-> IF e.msg # <<>> THEN Append(msgs, e.msg) ELSE msgs]

\* process_buffer(): the buffer and the dispatched messages afterwards
ProcessBuffer(buf, msgs) ==
    IF BufIsEmpty(buf) THEN [buf |-> <<>>, msgs |-> msgs]
    ELSE LET b == AdjustBuffer(buf, SyncKeywords) IN
         IF BufStartsWith(b, IgnoredPrefixes)
         THEN ProcessMessage(<<>>, msgs)
         ELSE IF BufStartsWith(b, SentinelPrefixes) /\ EndsWithTerminator(b)
         THEN ProcessMessage(b, msgs)
         ELSE IF EndsWithTerminator(b)
         THEN [buf |-> <<>>, msgs |-> msgs]
         ELSE IF KeyMatches(b)
         THEN ProcessMessage(<<>>, msgs)
         ELSE ProcessMessage(b, msgs)

\* reader.readuntil(separator=b"\n") when the separator is buffered
ReadUntil(rd) ==
    LET pos == Find(rd, TERMINATOR) IN
    [data |-> SubSeq(rd, 1, pos), rd |-> From(rd, pos + 1)]

READ_LIMIT == 1024

\* reader.read(1024) when bytes are buffered
ReadAny(rd) ==
    LET n == IF Len(rd) < READ_LIMIT THEN Len(rd) ELSE READ_LIMIT IN
    [data |-> SubSeq(rd, 1, n), rd |-> From(rd, n + 1)]

\* The framer run on a stream that is delivered whole: every byte is in the
\* StreamReader before the first read, and nothing arrives later.
RECURSIVE FrameWhole(_, _, _)
FrameWhole(rd, buf, msgs) ==
    IF rd = <<>> THEN msgs
    ELSE LET buf1 == Append(buf, Head(rd))
             rd1  == Tail(rd)
             r    == IF Find(rd1, TERMINATOR) > 0 THEN ReadUntil(rd1) ELSE ReadAny(rd1)
             p    == ProcessBuffer(buf1 \o r.data, msgs)
         IN FrameWhole(r.rd, p.buf, p.msgs)

FrIdle ==
    /\ frStream = <<>>
    /\ frPending = <<>>
    /\ frRd = <<>>
    /\ frBuf = <<>>
    /\ frPc = "read1"
    /\ frMsgs = <<>>

FrInit ==
    /\ frStream \in Streams
    /\ frPending = frStream
    /\ frRd = <<>>
    /\ frBuf = <<>>
    /\ frPc = "read1"
    /\ frMsgs = <<>>

\* The transport delivers the next k bytes (StreamReader.feed_data).
FrFeed(k) ==
    /\ k \in 1..Len(frPending)
    /\ frRd' = frRd \o SubSeq(frPending, 1, k)
    /\ frPending' = From(frPending, k + 1)
    /\ UNCHANGED <<frStream, frBuf, frPc, frMsgs, notFrVars>>

\* _read_single_byte(): reader.read(1) returns one byte
FrReadSingleByte ==
    /\ frPc = "read1"
    /\ frRd # <<>>
    /\ frBuf' = Append(frBuf, Head(frRd))
    /\ frRd' = Tail(frRd)
    /\ frPc' = "readuntil"
    /\ UNCHANGED <<frStream, frPending, frMsgs, notFrVars>>

\* _read_additional_data(): readuntil returns; then process_buffer()
FrReadUntilReturns ==
    /\ frPc = "readuntil"
    /\ Find(frRd, TERMINATOR) > 0
    /\ LET r == ReadUntil(frRd)
           p == ProcessBuffer(frBuf \o r.data, frMsgs)
       IN frRd' = r.rd /\ frBuf' = p.buf /\ frMsgs' = p.msgs
    /\ frPc' = "read1"
    /\ UNCHANGED <<frStream, frPending, notFrVars>>

\* _read_additional_data(): readuntil times out after 0.2 s
FrReadUntilTimeout ==
    /\ frPc = "readuntil"
    /\ Find(frRd, TERMINATOR) = 0
    /\ frPc' = "readany"
    /\ UNCHANGED <<frStream, frPending, frRd, frBuf, frMsgs, notFrVars>>

\* _read_additional_data(): read(1024) returns; then process_buffer()
FrReadAnyReturns ==
    /\ frPc = "readany"
    /\ frRd # <<>>
    /\ LET r == ReadAny(frRd)
           p == ProcessBuffer(frBuf \o r.data, frMsgs)
       IN frRd' = r.rd /\ frBuf' = p.buf /\ frMsgs' = p.msgs
    /\ frPc' = "read1"
    /\ UNCHANGED <<frStream, frPending, notFrVars>>

\* _read_additional_data(): read(1024) times out too, data = ""; process_buffer()
FrReadAnyTimeout ==
    /\ frPc = "readany"
    /\ frRd = <<>>
    /\ LET p == ProcessBuffer(frBuf, frMsgs)
       IN frBuf' = p.buf /\ frMsgs' = p.msgs
    /\ frPc' = "read1"
    /\ UNCHANGED <<frStream, frPending, frRd, notFrVars>>

(***************************************************************************)
(* Spec: the DeviceManager lifecycle.  One DeviceManager, its TaskManager, *)
(* the handlers it opens, and the coroutines it runs.  Every state is a    *)
(* state of the event loop between two callbacks, so every coroutine is at *)
(* an await.                                                               *)
(*                                                                         *)
(* A task record: name, st ("free" = slot unused, "run" = not settled,     *)
(* "done" = settled with its done-callbacks still queued), pc (the await   *)
(* it is suspended at), creq (cancel() requested, not yet delivered), out  *)
(* (how it settled), h (the handler a _handle_disconnection call closes),  *)
(* ev (the listener call it awaits), n (attempts), arg (its argument, or   *)
(* "skipped" once _handle_disconnection logged that it skips the cleanup). *)
(*                                                                         *)
(* A listener call record (dmEvt): st ("free", "ready" = scheduled by      *)
(* gather, "await_cancel" = inside cancel_task, "done"), state (the        *)
(* event's state), owner (the handler whose "invoke_event" task awaits     *)
(* it), by (the task awaiting it), waits (the task cancel_task awaits).    *)
(***************************************************************************)
MaxOpens == 2

MaxDmTasks == 3

MaxEvts == 2

MaxAttempts == 1

DmNames == {"run_once_at_startup", "retry_alive_check", "periodic_alive_check",
            "reconnect_loop", "handle_data_received"}

DmIds == 1..MaxDmTasks

EvIds == 1..MaxEvts

HandlerIds == 1..MaxOpens

\* max_retries or (24 * 60 * 60) // retry_delay, with retry_delay = 30
max_retries == 2880

DmFreeTask ==
    [name |-> "", st |-> "free", pc |-> "", creq |-> FALSE, out |-> "none",
     h |-> None, ev |-> 0, n |-> 0, arg |-> ""]

EvFreeJob == [st |-> "free", state |-> "", owner |-> None, by |-> NoTask, waits |-> NoTask]

EvFree(evt) == {e \in EvIds : evt[e].st = "free"}

\* dispatcher.invoke_event(CONNECTION_STATE, state=...): gather schedules the
\* DeviceManager's listener
InvokeEvent(evt, state, owner, by) ==
    [evt EXCEPT ![Min(EvFree(evt))] =
        [st |-> "ready", state |-> state, owner |-> owner, by |-> by, waits |-> NoTask]]

\* device_state.info is None
NoInfo == "None"

\* the state values of ConnectionStatus
ConnectionStatusValues == {"CONNECTED", "DISCONNECTED"}

\* status = ConnectionStatus(state); except ValueError: status = DISCONNECTED
StatusOf(state) == IF state \in ConnectionStatusValues THEN state ELSE "DISCONNECTED"

\* _cache.data holds no "_cached_operational_state"
NoCache == "unset"

\* the cached model_dump() of an operational state with this is_alive (the
\* other fields of the operational state do not change in this model)
CacheOf(value) == IF value THEN "True" ELSE "False"

\* _handle_operational_state(response) for is_alive: the new state is the
\* current one with is_alive replaced; update_state stores it, and caches
\* it, only when it differs from the cached one
UpdateIsAlive(alive, cache, value) ==
    IF cache = CacheOf(value)
    THEN [is_alive |-> alive, cache_alive |-> cache]
    ELSE [is_alive |-> value, cache_alive |-> CacheOf(value)]

is_connected_always == TRUE

\* DeviceManager.is_connected
is_connected == status = "CONNECTED"

\* task_manager.add_task(coro, name): the registry and the tasks afterwards
DmAddTask(reg, task, name, pc, arg) ==
    IF AddTaskStarts(reg, name)
    THEN LET id == Min({i \in DmIds : task[i].st = "free"}) IN
         [reg  |-> RegPut(reg, name, id),
          task |-> [task EXCEPT ![id] = [DmFreeTask EXCEPT !.name = name, !.st = "run",
                                                           !.pc = pc, !.arg = arg]]]
    ELSE [reg |-> reg, task |-> task]

\* a task slot is left for add_task to use (the bound on live tasks)
DmCanAdd(reg, task, name) ==
    ~AddTaskStarts(reg, name) \/ \E i \in DmIds : task[i].st = "free"

\* a coroutine returns or raises: the task settles
DmFinish(task, i, out) ==
    [task EXCEPT ![i] = [DmFreeTask EXCEPT !.name = task[i].name, !.st = "done", !.out = out]]

\* DeviceManager(connection_type, reconnect), after __init__
DmInit ==
    /\ connection_type \in {"serial", "ip"}
    /\ reconnect_enabled \in BOOLEAN
    /\ status = "DISCONNECTED"
    /\ handler = None
    /\ closing = FALSE
    /\ is_alive = FALSE
    /\ cache_alive = NoCache
    /\ alive_event = FALSE
    /\ info = NoInfo
    /\ debug_disabled = FALSE
    /\ dmReg = [n \in DmNames |-> IF n = "run_once_at_startup" THEN 1 ELSE NoTask]
    /\ dmTask = [i \in DmIds |->
                   IF i = 1
                   THEN [DmFreeTask EXCEPT !.name = "run_once_at_startup", !.st = "run", !.pc = "poll"]
                   ELSE DmFreeTask]
    /\ dmEvt = [e \in EvIds |-> EvFreeJob]
    /\ hdl = [h \in HandlerIds |-> [transport |-> "none", tasks |-> "none"]]
    /\ dmClose = [pc |-> "idle", h |-> None, wait |-> {}, released |-> FALSE]

\* the lifecycle variables in the specifications of the other components
DmIdle == DmInit /\ connection_type = "ip" /\ reconnect_enabled

\* The transport opens: IPHandler.open_connection / SerialHandler.connection_made
\* schedule the CONNECTED event and process_stream on the new handler, and
\* DeviceManager.open stores the handler (no await in between).
OpenConnection ==
    /\ \E h \in HandlerIds : hdl[h].transport = "none"
    /\ EvFree(dmEvt) # {}
    /\ LET h == Min({x \in HandlerIds : hdl[x].transport = "none"}) IN
       /\ hdl' = [hdl EXCEPT ![h] = [transport |-> "open", tasks |-> "run"]]
       /\ handler' = h
       /\ dmEvt' = InvokeEvent(dmEvt, "CONNECTED", h, NoTask)

\* DeviceManager.open() succeeds, called by an application that holds no
\* connection and has not closed the manager
DmOpen ==
    /\ handler = None
    /\ ~closing
    /\ OpenConnection
    /\ UNCHANGED <<connection_type, info, debug_disabled, status, closing, reconnect_enabled, is_alive, cache_alive,
                   alive_event, dmReg, dmTask, dmClose, notDmVars>>

\* SerialHandler.connection_lost(exc), awaited: dispatches DISCONNECTED
ConnectionLost(h) ==
    /\ connection_type = "serial"
    /\ hdl[h].transport = "open"
    /\ EvFree(dmEvt) # {}
    /\ hdl' = [hdl EXCEPT ![h].transport = "lost"]
    /\ dmEvt' = InvokeEvent(dmEvt, "DISCONNECTED", None, NoTask)
    /\ UNCHANGED <<connection_type, info, debug_disabled, status, handler, closing, reconnect_enabled, is_alive, cache_alive,
                   alive_event, dmReg, dmTask, dmClose, notDmVars>>

\* _async_event_handler(CONNECTION_STATE, state=CONNECTED) runs up to its
\* first await, or to its end when cancel_task does not suspend
EvConnected(e) ==
    /\ dmEvt[e].st = "ready"
    /\ StatusOf(dmEvt[e].state) = "CONNECTED"
    /\ status' = "CONNECTED"
    /\ LET t == dmReg["reconnect_loop"]
           popped == RegPop(dmReg, "reconnect_loop")
       IN
       IF t # NoTask /\ dmTask[t].st = "run"
       THEN \* task.cancel(); await task
            /\ dmReg' = popped
            /\ dmTask' = [dmTask EXCEPT ![t].creq = TRUE]
            /\ dmEvt' = [dmEvt EXCEPT ![e].st = "await_cancel", ![e].waits = t]
       ELSE IF t # NoTask /\ dmTask[t].out = "cancelled"
       THEN \* the task is settled as cancelled: await task raises at once
            /\ dmReg' = popped
            /\ dmEvt' = [dmEvt EXCEPT ![e] = EvFreeJob]
            /\ UNCHANGED dmTask
       ELSE \* no task, or one settled normally: add_task(_retry_alive_check())
            /\ DmCanAdd(popped, dmTask, "retry_alive_check")
            /\ LET a == DmAddTask(popped, dmTask, "retry_alive_check", "top", "") IN
               dmReg' = a.reg /\ dmTask' = a.task
            /\ dmEvt' = [dmEvt EXCEPT ![e] = EvFreeJob]
    /\ UNCHANGED <<connection_type, info, debug_disabled, handler, closing, reconnect_enabled, is_alive, cache_alive,
                   alive_event, hdl, dmClose, notDmVars>>

\* if reconnect_enabled: add_task(self._reconnect_loop(), name="reconnect_loop")
OnDisconnectedAlways(enabled, reg, task) ==
    DmAddTask(reg, task, "reconnect_loop", "top", "")

OnDisconnected(enabled, reg, task) ==
    IF enabled THEN DmAddTask(reg, task, "reconnect_loop", "top", "")
    ELSE [reg |-> reg, task |-> task]

\* _async_event_handler(CONNECTION_STATE, state): the status is DISCONNECTED,
\* as given or after ValueError; no await
EvDisconnected(e) ==
    /\ dmEvt[e].st = "ready"
    /\ StatusOf(dmEvt[e].state) = "DISCONNECTED"
    /\ status' = "DISCONNECTED"
    /\ info' = NoInfo
    /\ handler' = None
    /\ is_alive' = FALSE
    /\ UNCHANGED cache_alive
    /\ reconnect_enabled => DmCanAdd(dmReg, dmTask, "reconnect_loop")
    /\ LET a == OnDisconnected(reconnect_enabled, dmReg, dmTask) IN
       dmReg' = a.reg /\ dmTask' = a.task
    /\ dmEvt' = [dmEvt EXCEPT ![e] = IF dmEvt[e].by # NoTask
                                      THEN [dmEvt[e] EXCEPT !.st = "done"]
                                      ELSE EvFreeJob]
    /\ UNCHANGED <<connection_type, debug_disabled, closing, reconnect_enabled,
                   alive_event, hdl, dmClose, notDmVars>>

\* One step of a coroutine: every variable of the lifecycle takes its value
\* from the record u, or keeps its value when u has no such field.
DmSet(u) ==
    /\ status'      = IF "status" \in DOMAIN u THEN u.status ELSE status
    /\ handler'     = IF "handler" \in DOMAIN u THEN u.handler ELSE handler
    /\ closing'     = IF "closing" \in DOMAIN u THEN u.closing ELSE closing
    /\ is_alive'    = IF "is_alive" \in DOMAIN u THEN u.is_alive ELSE is_alive
    /\ cache_alive' = IF "cache_alive" \in DOMAIN u THEN u.cache_alive ELSE cache_alive
    /\ alive_event' = IF "alive_event" \in DOMAIN u THEN u.alive_event ELSE alive_event
    /\ info'        = IF "info" \in DOMAIN u THEN u.info ELSE info
    /\ debug_disabled' = IF "debug_disabled" \in DOMAIN u THEN u.debug_disabled
                         ELSE debug_disabled
    /\ dmReg'       = IF "dmReg" \in DOMAIN u THEN u.dmReg ELSE dmReg
    /\ dmTask'      = IF "dmTask" \in DOMAIN u THEN u.dmTask ELSE dmTask
    /\ dmEvt'       = IF "dmEvt" \in DOMAIN u THEN u.dmEvt ELSE dmEvt
    /\ hdl'         = IF "hdl" \in DOMAIN u THEN u.hdl ELSE hdl
    /\ dmClose'     = IF "dmClose" \in DOMAIN u THEN u.dmClose ELSE dmClose
    /\ UNCHANGED <<connection_type, reconnect_enabled, notDmVars>>

\* handler.close(), BaseHandler.close: cancel_all_tasks() cancels the handler's
\* own tasks; a listener call that has not started never runs
HandlerCancelAll(h) ==
    [hdl   |-> [hdl EXCEPT ![h].tasks = "cancel"],
     dmEvt |-> [e \in EvIds |-> IF dmEvt[e].owner = h /\ dmEvt[e].st = "ready"
                                THEN EvFreeJob ELSE dmEvt[e]]]

\* the gather of the handler's tasks is complete
HandlerSettled(h) == \A e \in EvIds : dmEvt[e].owner # h

\* the gather returned, the registry is cleared; IPHandler.close: writer.close()
HandlerGathered(h) ==
    [hdl EXCEPT ![h].tasks = "settled",
                ![h].transport = IF connection_type = "ip" THEN "closed" ELSE @]

\* the first await handler.close() suspends at; "returned" when there is none
HandlerCloseStage(h) ==
    IF hdl[h].tasks # "settled" THEN "gather"
    ELSE IF connection_type = "ip" THEN "wait_closed"
    ELSE "returned"

\* _handle_disconnection after handler.close(): handler = None, then
\* invoke_event(CONNECTION_STATE, state=DISCONNECTED) is awaited
HdDispatch(i, task) ==
    [handler |-> None,
     dmEvt   |-> InvokeEvent(dmEvt, "DISCONNECTED", None, i),
     dmTask  |-> [task EXCEPT ![i].pc = "hd_dispatch", ![i].h = None,
                              ![i].ev = Min(EvFree(dmEvt))]]

\* what wait_closed() may do in IPHandler.close(): return (or time out,
\* which close() catches itself), or raise the error that broke the
\* connection (an OSError such as ConnectionResetError)
CloseOutcomes == {"closed", "raised"}

\* a handler.close() whose error leaves _handle_disconnection at once
HdAfterCloseGivesUp(i, task, outcome) ==
    IF outcome = "raised"
    THEN [dmTask |-> [task EXCEPT ![i].pc = "final", ![i].arg = "close_raised"]]
    ELSE HdDispatch(i, task)

\* _handle_disconnection when handler.close() is over: except (ConnectionError,
\* TimeoutError, OSError) logs the error; finally: handler = None; then the
\* DISCONNECTED event is dispatched
HdAfterClose(i, task, outcome) ==
    HdDispatch(i, [task EXCEPT ![i].arg = IF outcome = "raised" THEN "close_raised" ELSE @])

AlreadyDisconnectedNever == FALSE

\* _handle_disconnection: if not self.is_connected: return
AlreadyDisconnected == ~is_connected

\* the await a _handle_disconnection call made now would reach first
HdStage ==
    IF AlreadyDisconnected THEN "skip"
    ELSE IF handler = None THEN "dispatch"
    ELSE IF HandlerCloseStage(handler) = "returned" THEN "dispatch"
    ELSE HandlerCloseStage(handler)

\* _handle_disconnection() called by task i, up to its first await; the caller
\* (_health_check) breaks out of its loop when the call returns
HandleDisconnection(i, task) ==
    CASE HdStage = "skip" -> [dmTask |-> [task EXCEPT ![i].pc = "final", ![i].arg = "skipped"]]
      [] HdStage = "gather" ->
            HandlerCancelAll(handler) @@
            [dmTask |-> [task EXCEPT ![i].pc = "hd_gather", ![i].h = handler]]
      [] HdStage = "wait_closed" ->
            [hdl    |-> HandlerGathered(handler),
             dmTask |-> [task EXCEPT ![i].pc = "hd_wait_closed", ![i].h = handler]]
      [] HdStage = "dispatch" -> HdDispatch(i, task)

\* _check_device_alive() after alive_event was set: add_task(_health_check())
\* when the model name is not known yet
CheckAliveAdds(modelNone) ==
    IF modelNone
    THEN DmAddTask(dmReg, dmTask, "periodic_alive_check", "top", "")
    ELSE [reg |-> dmReg, task |-> dmTask]

\* _reconnect_loop's loop head: why the loop is left ("" when it goes on to
\* open()).  The while condition comes first; after the loop an exhausted
\* budget is logged.  Inside, a manual close or disabled reconnection returns.
LoopExitNoAbort(attempts, budget) ==
    IF attempts >= budget THEN "exhausted"
    ELSE IF is_connected THEN "connected"
    ELSE ""

LoopExit(attempts, budget) ==
    IF attempts >= budget THEN "exhausted"
    ELSE IF is_connected THEN "connected"
    ELSE IF closing THEN "closing"
    ELSE IF ~reconnect_enabled THEN "disabled"
    ELSE ""

\* _reconnect_loop: the while condition and the body up to await self.open()
ReconnectHead(i, task) ==
    IF LoopExit(task[i].n, max_retries) # ""
    THEN DmFinish(task, i, "ok")
    ELSE [task EXCEPT ![i].pc = "opening"]

\* _reconnect_loop, one step of task i
ReconnectLoop(i) ==
    /\ dmTask[i].name = "reconnect_loop" /\ dmTask[i].st = "run" /\ ~dmTask[i].creq
    /\ \/ /\ dmTask[i].pc = "top"
          /\ DmSet([dmTask |-> ReconnectHead(i, dmTask)])
       \/ \* open() succeeds; the CONNECTED listener has not run yet
          /\ dmTask[i].pc = "opening"
          /\ OpenConnection
          /\ dmTask' = IF is_connected THEN DmFinish(dmTask, i, "ok")
                       ELSE [dmTask EXCEPT ![i].pc = "sleep"]
          /\ UNCHANGED <<connection_type, info, debug_disabled, status, closing, reconnect_enabled, is_alive, cache_alive,
                         alive_event, dmReg, dmClose, notDmVars>>
       \/ \* open() raises TimeoutError or OSError
          /\ dmTask[i].pc = "opening"
          /\ dmTask[i].n < MaxAttempts
          /\ DmSet([dmTask |-> IF is_connected
                               THEN ReconnectHead(i, [dmTask EXCEPT ![i].n = @ + 1])
                               ELSE [dmTask EXCEPT ![i].pc = "sleep"]])
       \/ \* asyncio.sleep(retry_delay) is over: attempts += 1
          /\ dmTask[i].pc = "sleep"
          /\ dmTask[i].n < MaxAttempts
          /\ DmSet([dmTask |-> ReconnectHead(i, [dmTask EXCEPT ![i].n = @ + 1])])

\* a retry loop that does not look at the connection
RetryHeadBlind(i, task) ==
    IF is_alive
    THEN [dmTask |-> DmFinish(task, i, "ok")]
    ELSE [dmTask |-> [task EXCEPT ![i].pc = "wait_alive"], alive_event |-> FALSE]

\* _retry_alive_check: the while condition and _check_device_alive() up to its wait
RetryHead(i, task) ==
    IF is_alive \/ ~is_connected
    THEN [dmTask |-> DmFinish(task, i, "ok")]
    ELSE [dmTask |-> [task EXCEPT ![i].pc = "wait_alive"], alive_event |-> FALSE]

\* _retry_alive_check, one step of task i
RetryAliveCheck(i) ==
    /\ dmTask[i].name = "retry_alive_check" /\ dmTask[i].st = "run" /\ ~dmTask[i].creq
    /\ \/ /\ dmTask[i].pc \in {"top", "sleep"}
          /\ DmSet(RetryHead(i, dmTask))
       \/ \* the device answered: alive_event.wait() returns
          /\ dmTask[i].pc = "wait_alive" /\ alive_event
          /\ \E modelNone \in BOOLEAN :
               /\ modelNone => DmCanAdd(dmReg, dmTask, "periodic_alive_check")
               /\ LET a == CheckAliveAdds(modelNone) IN
                  DmSet([dmReg  |-> a.reg,
                         dmTask |-> IF is_alive THEN DmFinish(a.task, i, "ok")
                                    ELSE [a.task EXCEPT ![i].pc = "sleep"]])
       \/ \* wait_for(..., timeout) raises TimeoutError
          /\ dmTask[i].pc = "wait_alive" /\ ~alive_event
          /\ DmSet([dmTask |-> [dmTask EXCEPT ![i].pc = "sleep"]])

\* LoggingMixin.disable_debug_logging() / enable_debug_logging()
DisableDebugLogging == [debug_disabled |-> TRUE]

EnableDebugLogging == [debug_disabled |-> FALSE]

\* _health_check: the while condition, up to await asyncio.sleep(interval)
HealthHead(i, task) ==
    IF is_connected /\ is_alive
    THEN [task EXCEPT ![i].pc = "sleep"]
    ELSE DmFinish(task, i, "ok")

\* what _health_check finds when it wakes: no data was ever received
\* (last_data_received is None), the last data is less than interval old,
\* or it is older
DataAges == {"none", "recent", "old"}

\* a health check that probes whatever the age of the last data
HealthAfterSleepProbes(i, age) ==
    IF ~is_connected
    THEN HandleDisconnection(i, dmTask) @@ DisableDebugLogging
    ELSE [dmTask |-> [dmTask EXCEPT ![i].pc = "wait_alive"], alive_event |-> FALSE]
         @@ DisableDebugLogging

\* _health_check after asyncio.sleep(interval): recent data means continue;
\* otherwise debug logging is disabled and _check_device_alive() runs, which
\* returns False at once when not connected (so _handle_disconnection() is
\* called) and else clears the event, sends the query and waits
HealthAfterSleep(i, age) ==
    IF age = "recent"
    THEN [dmTask |-> HealthHead(i, dmTask)]
    ELSE IF ~is_connected
    THEN HandleDisconnection(i, dmTask) @@ DisableDebugLogging
    ELSE [dmTask |-> [dmTask EXCEPT ![i].pc = "wait_alive"], alive_event |-> FALSE]
         @@ DisableDebugLogging

\* _health_check, with the _check_device_alive and _handle_disconnection
\* calls it makes: one step of task i
HealthCheck(i) ==
    /\ dmTask[i].name = "periodic_alive_check" /\ dmTask[i].st = "run" /\ ~dmTask[i].creq
    /\ \/ /\ dmTask[i].pc = "top"
          /\ DmSet([dmTask |-> HealthHead(i, dmTask)])
       \/ \* asyncio.sleep(interval) is over
          /\ dmTask[i].pc = "sleep"
          /\ \E age \in DataAges : DmSet(HealthAfterSleep(i, age))
       \/ \* the device answered; _check_device_alive() returns is_alive
          /\ dmTask[i].pc = "wait_alive" /\ alive_event
          /\ \E modelNone \in BOOLEAN :
               /\ modelNone => DmCanAdd(dmReg, dmTask, "periodic_alive_check")
               /\ ~is_alive /\ HdStage = "dispatch" => EvFree(dmEvt) # {}
               /\ LET a == CheckAliveAdds(modelNone) IN
                  DmSet([dmReg |-> a.reg] @@
                        (IF is_alive
                         THEN [dmTask |-> [a.task EXCEPT ![i].pc = "final_cont"]]
                         ELSE HandleDisconnection(i, a.task)))
       \/ \* the wait times out: False, so _handle_disconnection()
          /\ dmTask[i].pc = "wait_alive" /\ ~alive_event
          /\ HdStage = "dispatch" => EvFree(dmEvt) # {}
          /\ DmSet(HandleDisconnection(i, dmTask))
       \/ \* handler.close(): the gather of the handler's tasks returned
          /\ dmTask[i].pc = "hd_gather"
          /\ HandlerSettled(dmTask[i].h)
          /\ connection_type = "serial" => EvFree(dmEvt) # {}
          /\ DmSet([hdl |-> HandlerGathered(dmTask[i].h)] @@
                   (IF connection_type = "ip"
                    THEN [dmTask |-> [dmTask EXCEPT ![i].pc = "hd_wait_closed"]]
                    ELSE HdDispatch(i, dmTask)))
       \/ \* IPHandler.close(): writer.wait_closed() returned, timed out or raised
          /\ dmTask[i].pc = "hd_wait_closed"
          /\ EvFree(dmEvt) # {}
          /\ \E outcome \in CloseOutcomes : DmSet(HdAfterClose(i, dmTask, outcome))
       \/ \* invoke_event returned: _handle_disconnection returns, break
          /\ dmTask[i].pc = "hd_dispatch"
          /\ dmEvt[dmTask[i].ev].st = "done"
          /\ DmSet([dmEvt  |-> [dmEvt EXCEPT ![dmTask[i].ev] = EvFreeJob],
                    dmTask |-> [dmTask EXCEPT ![i].pc = "final", ![i].ev = 0]])
       \/ \* finally: asyncio.sleep(0.1) is over, after break
          /\ dmTask[i].pc = "final"
          /\ DmSet([dmTask |-> DmFinish(dmTask, i, "ok")] @@ EnableDebugLogging)
       \/ \* finally: asyncio.sleep(0.1) is over, the loop goes on
          /\ dmTask[i].pc = "final_cont"
          /\ DmSet([dmTask |-> HealthHead(i, dmTask)] @@ EnableDebugLogging)
       \/ \* finally: asyncio.sleep(0.1) is over, CancelledError propagates
          /\ dmTask[i].pc = "final_cancelled"
          /\ DmSet([dmTask |-> DmFinish(dmTask, i, "cancelled")] @@ EnableDebugLogging)

\* operational_state.device_status: None until a power-state answer has been
\* handled, then DeviceStatus.ACTIVE or DeviceStatus.STANDBY
DeviceStatuses == {"None", "Active", "Standby"}

StartupAfterPollAlways(i, alive, device_status) ==
    IF ~alive \/ device_status = "None"
    THEN dmTask
    ELSE [dmTask EXCEPT ![i].pc = "get_all", ![i].arg = device_status]

\* _run_once_at_startup after one asyncio.sleep(0.5): the loop goes on while
\* is_alive is False or device_status is None; after the loop get_all() is
\* awaited only with device_status ACTIVE
StartupAfterPoll(i, alive, device_status) ==
    IF ~alive \/ device_status = "None"
    THEN dmTask
    ELSE IF device_status = "Active"
         THEN [dmTask EXCEPT ![i].pc = "get_all", ![i].arg = device_status]
         ELSE DmFinish(dmTask, i, "ok")

\* _run_once_at_startup: the poll reads is_alive and the device status that
\* the power-state answers handled so far have left; the burst of get_all()
\* is sent and the task returns
RunOnceAtStartup(i) ==
    /\ dmTask[i].name = "run_once_at_startup" /\ dmTask[i].st = "run" /\ ~dmTask[i].creq
    /\ \/ /\ dmTask[i].pc = "poll"
          /\ \E device_status \in DeviceStatuses :
                DmSet([dmTask |-> StartupAfterPoll(i, is_alive, device_status)])
       \/ /\ dmTask[i].pc = "get_all"
          /\ DmSet([dmTask |-> DmFinish(dmTask, i, "ok")])

DataKinds == {"StatusAlive"}

\* The device answers an alive query that is waited for: process_stream
\* dispatches DATA_RECEIVED and _async_event_handler adds the
\* "handle_data_received" task.
DataReceived(kind) ==
    /\ \E h \in HandlerIds : hdl[h].transport = "open" /\ hdl[h].tasks = "run"
    /\ \E i \in DmIds : dmTask[i].st = "run" /\ dmTask[i].pc = "wait_alive"
    /\ ~alive_event
    /\ DmCanAdd(dmReg, dmTask, "handle_data_received")
    /\ LET a == DmAddTask(dmReg, dmTask, "handle_data_received", "run", kind) IN
       DmSet([dmReg |-> a.reg, dmTask |-> a.task])

\* _handle_data_received(response); for StatusAlive, _handle_operational_state
\* sets alive_event and is_alive
HandleDataReceived(i) ==
    /\ dmTask[i].name = "handle_data_received" /\ dmTask[i].st = "run" /\ ~dmTask[i].creq
    /\ DmSet([dmTask |-> DmFinish(dmTask, i, "ok")] @@
             (IF dmTask[i].arg = "StatusAlive"
              THEN [alive_event |-> TRUE] @@ UpdateIsAlive(is_alive, cache_alive, TRUE)
              ELSE [dmTask |-> dmTask]))

\* A requested cancellation is delivered: CancelledError is raised at the
\* await task i is suspended at.
DmTaskCancelled(i) ==
    /\ dmTask[i].st = "run" /\ dmTask[i].creq
    /\ LET t == dmTask[i]
           \* _handle_disconnection: finally: handler = None
           u1 == IF t.pc \in {"hd_gather", "hd_wait_closed"}
                 THEN [handler |-> None] ELSE [dmTask |-> dmTask]
           \* the awaited gather cancels the listener call
           u2 == IF t.pc = "hd_dispatch"
                 THEN [dmEvt |-> [dmEvt EXCEPT ![t.ev] = EvFreeJob]] ELSE [dmTask |-> dmTask]
       IN
       DmSet([dmTask |-> IF t.pc \in {"wait_alive", "hd_gather", "hd_wait_closed", "hd_dispatch"}
                            /\ t.name = "periodic_alive_check"
                         THEN \* _health_check: finally: await asyncio.sleep(0.1)
                              [dmTask EXCEPT ![i].pc = "final_cancelled", ![i].creq = FALSE,
                                             ![i].h = None, ![i].ev = 0]
                         ELSE DmFinish(dmTask, i, "cancelled")] @@ u1 @@ u2)

\* The done-callbacks of task i run: _handle_task_completion pops the name,
\* then whoever awaits the task resumes (cancel_task in the CONNECTED
\* listener; the gather of cancel_all_tasks counts the task as finished).
DmCompletion(i) ==
    /\ dmTask[i].st = "done"
    /\ LET popped  == RegPop(dmReg, dmTask[i].name)
           freed   == [dmTask EXCEPT ![i] = DmFreeTask]
           waiters == {e \in EvIds : dmEvt[e].st = "await_cancel" /\ dmEvt[e].waits = i}
           close   == [dmClose EXCEPT !.wait = @ \ {i}]
       IN
       IF waiters = {}
       THEN DmSet([dmReg |-> popped, dmTask |-> freed, dmClose |-> close])
       ELSE LET e == CHOOSE x \in waiters : TRUE IN
            IF dmTask[i].out = "cancelled"
            THEN \* cancel_task: except CancelledError: raise
                 DmSet([dmReg |-> popped, dmTask |-> freed, dmClose |-> close,
                        dmEvt |-> [dmEvt EXCEPT ![e] = EvFreeJob]])
            ELSE \* cancel_task returns: add_task(_retry_alive_check())
                 LET a == DmAddTask(popped, freed, "retry_alive_check", "top", "") IN
                 DmSet([dmReg |-> a.reg, dmTask |-> a.task, dmClose |-> close,
                        dmEvt |-> [dmEvt EXCEPT ![e] = EvFreeJob]])

\* close(): task_manager.cancel_all_tasks() up to its gather, or to the end
\* of close() when there is nothing to gather; rel: the handler was released
CloseCancelAll(rel) ==
    LET vals == RegValues(dmReg) IN
    (IF rel THEN [handler |-> None] ELSE [closing |-> TRUE]) @@
    (IF vals = {}
     THEN [status   |-> "DISCONNECTED",
           is_alive |-> FALSE,
           cache_alive |-> NoCache,
           dmClose  |-> [pc |-> "done", h |-> None, wait |-> {}, released |-> rel]]
     ELSE [dmTask  |-> [i \in DmIds |-> IF i \in vals /\ dmTask[i].st = "run"
                                        THEN [dmTask[i] EXCEPT !.creq = TRUE]
                                        ELSE dmTask[i]],
           dmClose |-> [pc |-> "dm_gather", h |-> None, wait |-> vals, released |-> rel]])

\* DeviceManager.close() is called, and runs up to its first await
DmCloseCall ==
    /\ ~closing
    /\ DmSet([closing |-> TRUE] @@
             (IF handler = None THEN CloseCancelAll(FALSE)
              ELSE CASE HandlerCloseStage(handler) = "gather" ->
                          HandlerCancelAll(handler) @@
                          [dmClose |-> [dmClose EXCEPT !.pc = "h_gather", !.h = handler]]
                     [] HandlerCloseStage(handler) = "wait_closed" ->
                          [hdl     |-> HandlerGathered(handler),
                           dmClose |-> [dmClose EXCEPT !.pc = "h_wait_closed", !.h = handler]]
                     [] HandlerCloseStage(handler) = "returned" -> CloseCancelAll(TRUE)))

\* DeviceManager.close() resumes from an await
DmCloseStep ==
    \/ \* handler.close(): the gather of the handler's tasks returned
       /\ dmClose.pc = "h_gather"
       /\ HandlerSettled(dmClose.h)
       /\ DmSet([hdl |-> HandlerGathered(dmClose.h)] @@
                (IF connection_type = "ip"
                 THEN [dmClose |-> [dmClose EXCEPT !.pc = "h_wait_closed"]]
                 ELSE CloseCancelAll(TRUE)))
    \/ \* IPHandler.close(): wait_closed() returned; finally: handler = None
       /\ dmClose.pc = "h_wait_closed"
       /\ DmSet(CloseCancelAll(TRUE))
    \/ \* cancel_all_tasks(): the gather returned; clear(); status; reset_state()
       /\ dmClose.pc = "dm_gather"
       /\ dmClose.wait = {}
       /\ DmSet([dmReg    |-> RegClear(dmReg),
                 status   |-> "DISCONNECTED",
                 is_alive |-> FALSE,
                 cache_alive |-> NoCache,
                 dmClose  |-> [dmClose EXCEPT !.pc = "done"]])

(***************************************************************************)
(* Response decoding (messages.py): MessageParser and Response.factory.    *)
(* Strings are sequences of one-character strings.                         *)
(***************************************************************************)
CMD_DEVICE_START == <<"Z", "Q">>

STATUS_ALIVE == <<"S", "0", "0">>

STATUS_ID == <<"S", "0", "1">>

STATUS_POWER == <<"S", "0", "2">>

DEVICE_LABEL_QUERY == <<"S", "1">>

\* sub in s
Contains(s, sub) == Find(s, sub) > 0

\* str.rfind(sub) + 1: the 1-based index of the last occurrence, 0 if none
RFind(s, sub) ==
    LET hits == {i \in 1..(Len(s) - Len(sub) + 1) : SubSeq(s, i, i + Len(sub) - 1) = sub}
    IN IF hits = {} THEN 0 ELSE CHOOSE i \in hits : \A j \in hits : j <= i

\* str.split(sep) for a one-character sep: cur is the piece being read
RECURSIVE SplitAcc(_, _, _, _)
SplitAcc(s, sep, cur, acc) ==
    IF s = <<>> THEN Append(acc, cur)
    ELSE IF Head(s) = sep THEN SplitAcc(Tail(s), sep, <<>>, Append(acc, cur))
    ELSE SplitAcc(Tail(s), sep, Append(cur, Head(s)), acc)

Split(s, sep) == SplitAcc(s, sep, <<>>, <<>>)

PowerOffText == <<"P", "O", "W", "E", "R", " ", "O", "F", "F", ".">>

PowerUpText ==
    <<"P", "o", "w", "e", "r", "-", "u", "p", " ", "c", "o", "m", "p", "l", "e", "t", "e", ".">>

\* MessageParser._parse_fields() and _parse_name() on self.message
ParseFieldsAndName(message) ==
    LET pos    == RFind(message, <<"!">>)
        fields == IF pos # 0 THEN Split(From(message, pos + 1), ",") ELSE <<>>
    IN IF Len(fields) > 0
       THEN [raised |-> "", name |-> Head(fields), fields |-> Tail(fields)]
       ELSE [raised |-> "", name |-> <<>>, fields |-> fields]

\* a parser without the two power substitutions
MessageParserPlain(message) == ParseFieldsAndName(message)

\* MessageParser.__init__(message): the name and fields it ends with, or the
\* exception that leaves it.  fields[1] and split(",")[1] raise IndexError
\* when the label echo has no "!" part or that part has no ",".
MessageParser(message) ==
    IF Contains(message, PowerOffText)
    THEN ParseFieldsAndName(<<"!">> \o STATUS_POWER \o <<",", "0">>)
    ELSE IF Contains(message, PowerUpText)
    THEN ParseFieldsAndName(<<"!">> \o STATUS_POWER \o <<",", "1">>)
    ELSE IF StartsWith(message, <<"#", "Z", "Q", "S", "1">>)
    THEN LET fields == Split(message, "!") IN
         IF Len(fields) < 2 \/ Len(Split(fields[2], ",")) < 2
         THEN [raised |-> "IndexError", name |-> DEVICE_LABEL_QUERY, fields |-> <<>>]
         ELSE [raised |-> "", name |-> DEVICE_LABEL_QUERY,
               fields |-> <<From(fields[1], 6), Split(fields[2], ",")[2]>>]
    ELSE ParseFieldsAndName(message)

Digits == {"0", "1", "2", "3", "4", "5", "6", "7", "8", "9"}

\* pydantic's str -> int for the `int | None`, ge=0 fields of BaseDeviceId
\* (signs, blanks and underscores do not occur in the modelled messages)
IsNonNegInt(s) == s # <<>> /\ \A i \in 1..Len(s) : s[i] \in Digits

\* BaseDeviceId(**parsed.to_dict()): field.0 is a str of at most 100
\* characters, field.1 .. field.3 are integers; further fields are ignored
DeviceIdValid(fields) ==
    /\ Len(fields) >= 1 => Len(fields[1]) <= 100
    /\ \A i \in 2..4 : i <= Len(fields) => IsNonNegInt(fields[i])

\* registry[name].__name__ for the registered names, "Response" otherwise
ClassOf(name) ==
    IF name = STATUS_ALIVE THEN "StatusAlive"
    ELSE IF name = STATUS_ID THEN "StatusID"
    ELSE IF name = STATUS_POWER THEN "PowerState"
    ELSE IF name = DEVICE_LABEL_QUERY THEN "LabelQuery"
    ELSE "Response"

\* Response.factory(message): the response object (its class and fields), or
\* the exception raised.  A pydantic ValidationError is a ValueError.
ResponseFactory(message) ==
    LET parsed == MessageParser(message) IN
    IF parsed.raised # ""
    THEN [raised |-> parsed.raised, kind |-> "", fields |-> <<>>]
    ELSE IF parsed.name = STATUS_ID /\ ~DeviceIdValid(parsed.fields)
    THEN [raised |-> "ValueError", kind |-> "", fields |-> <<>>]
    ELSE [raised |-> "", kind |-> ClassOf(parsed.name), fields |-> parsed.fields]

(***************************************************************************)
(* The inbound pipeline of one open connection, end to end:                *)
(*   process_stream -> Response.factory -> invoke_event(DATA_RECEIVED)     *)
(*   -> DeviceManager._async_event_handler -> add_task(_handle_data_received)*)
(*   -> the state update, next to a caller of _check_device_alive and the  *)
(*   handler's sender task.                                                *)
(*                                                                         *)
(* The event loop runs its ready callbacks first in, first out; inReady is *)
(* that queue for the callbacks of the pipeline:                           *)
(*   "PS" a step of process_stream, "L" the first step of the listener     *)
(*   task gather() made, "H" the first step of the handle_data_received    *)
(*   task, "G" gather's done-callback on the listener task, "C" the        *)
(*   TaskManager completion callback of the handle_data_received task.     *)
(* Timers and I/O (arrival of data, the wait_for timeout, the sender) are  *)
(* not ordered by that queue.  Every line arrives whole; how the framer    *)
(* copes with chunking is the subject of SpecFramer.                       *)
(***************************************************************************)
MaxLines == 2

MsgAliveOk == <<"!">> \o STATUS_ALIVE \o <<",", "O", "k">>

MsgLabelEcho == <<"#">> \o CMD_DEVICE_START \o DEVICE_LABEL_QUERY \o <<"A", "0">>

MsgLabel == MsgLabelEcho \o <<"!">> \o DEVICE_LABEL_QUERY \o <<",", "T", "V">>

MsgId == <<"!">> \o STATUS_ID \o <<",", "X", ",", "1">>

MsgIdBad == <<"!">> \o STATUS_ID \o <<",", "X", ",", "a">>

MsgOther == <<"!", "Y">>

\* the lines (without terminator) the device may send
InLines == {MsgAliveOk, MsgLabelEcho, MsgLabel, MsgId, MsgIdBad, MsgOther}

InStreams == UNION {[1..n -> InLines] : n \in 0..MaxLines}

\* the task names of the DeviceManager's TaskManager that occur here
InNames == {"handle_data_received", "periodic_alive_check"}

\* the task a name is registered with (at most one per name exists at a time)
InTaskId(name) == IF name = "handle_data_received" THEN 1 ELSE 2

\* device_id.model_name is None
NoModel == "None"

InNoHandle == [st |-> "none", kind |-> "", fields |-> <<>>]

\* StatusAlive.field_is_alive: self.fields[0] == "Ok"
FieldIsAlive(fields) == fields[1] = <<"O", "k">>

\* CommandSender.send_command lets no ConnectionError out: queue_command
\* raises none, and the except clauses of send_command swallow it anyway.
SendCommandRaises == FALSE

\* BaseHandler.queue_command(batch): queue, history, registry and tasks after
QueueCommand(batch) ==
    LET valid == Normalise(batch) IN
    IF valid = <<>>
    THEN [queue |-> hQueue, accepted |-> hAccepted, reg |-> hReg, task |-> hTask]
    ELSE LET r == ProcessNextCommand(hReg, hTask) IN
         [queue |-> hQueue \o valid, accepted |-> hAccepted \o valid,
          reg |-> r.reg, task |-> r.task]

\* the liveness probe: CMD_DEVICE_START + STATUS_ALIVE
ProbeCommand == CMD_DEVICE_START \o STATUS_ALIVE

inRest == <<tmVars, dispVars, frVars, rlVars, cxVars, twVars, connection_type, info, debug_disabled, handler, closing,
            reconnect_enabled, dmReg, dmTask, dmEvt, hdl, dmClose, hClose, hCalls,
            inWriter>>

InIdle ==
    /\ inStream = <<>>
    /\ inRd = <<>>
    /\ inReady = <<>>
    /\ inH = InNoHandle
    /\ inReg = [n \in InNames |-> NoTask]
    /\ inDispatched = <<>>
    /\ inHandled = <<>>
    /\ inCk = "idle"
    /\ inModel = NoModel
    /\ inWriter = TRUE

\* An open connection: process_stream waits for data, nothing was received.
\* The status is an input (the caller of _check_device_alive may find the
\* connection in either), and so are a liveness signal left set by an
\* earlier check, a model name already learnt, a missing writer and the
\* cache an earlier connection left (is_alive was cached as true before a
\* DISCONNECTED event cleared it).
InInit ==
    /\ inStream \in InStreams
    /\ inRd = <<>>
    /\ inReady = <<>>
    /\ inH = InNoHandle
    /\ inReg = [n \in InNames |-> NoTask]
    /\ inDispatched = <<>>
    /\ inHandled = <<>>
    /\ inCk = "idle"
    /\ inModel \in {NoModel, "X"}
    /\ inWriter \in BOOLEAN
    /\ connection_type = "ip"
    /\ reconnect_enabled = TRUE
    /\ status \in {"CONNECTED", "DISCONNECTED"}
    /\ handler = None
    /\ closing = FALSE
    /\ is_alive = FALSE
    /\ cache_alive \in {NoCache, CacheOf(TRUE)}
    /\ alive_event \in BOOLEAN
    /\ info = NoInfo
    /\ debug_disabled = FALSE
    /\ dmReg = [n \in DmNames |-> NoTask]
    /\ dmTask = [i \in DmIds |-> DmFreeTask]
    /\ dmEvt = [e \in EvIds |-> EvFreeJob]
    /\ hdl = [h \in HandlerIds |-> [transport |-> "none", tasks |-> "none"]]
    /\ dmClose = [pc |-> "idle", h |-> None, wait |-> {}, released |-> FALSE]

\* the process_stream task of the handler, NoTask once its completion ran
InPs == hReg["process_stream"]

\* A line arrives in the StreamReader; a process_stream suspended in
\* reader.read(1) is made ready.
InArrive ==
    /\ inStream # <<>>
    /\ inStream' = Tail(inStream)
    /\ inRd' = Append(inRd, Head(inStream) \o TERMINATOR)
    /\ IF InPs # NoTask /\ hTask[InPs].st = "run" /\ hTask[InPs].pc = "read"
       THEN /\ hTask' = [hTask EXCEPT ![InPs].pc = "run"]
            /\ inReady' = Append(inReady, "PS")
       ELSE UNCHANGED <<hTask, inReady>>
    /\ UNCHANGED <<inH, inReg, inDispatched, inHandled, inCk, inModel,
                   status, is_alive, cache_alive, alive_event, hQueue, hAccepted, hWire, hReg, inRest>>

\* process_stream runs from one suspension point to the next:
\*  - resumed by invoke_event's result: process_message ends with
\*    process_next_command(), and the loop yields at `await asyncio.sleep(0)`;
\*  - resumed from sleep(0) or by data: it reads a line, or suspends in
\*    read(1) when there is none; process_buffer/process_message decode the
\*    line and either dispatch it, or log a ValueError and go on, or are left
\*    by any other exception, which ends the task.
InProcessStream ==
    /\ inReady # <<>> /\ Head(inReady) = "PS"
    /\ HCanTrigger
    /\ LET ps   == InPs
           next == ProcessNextCommand(hReg, hTask)
       IN
       IF hTask[ps].pc = "gather"
       THEN /\ hReg' = next.reg
            /\ hTask' = [next.task EXCEPT ![ps].pc = "run"]
            /\ inReady' = Append(Tail(inReady), "PS")
            /\ UNCHANGED <<inRd, inDispatched>>
       ELSE IF inRd = <<>>
       THEN /\ hTask' = [hTask EXCEPT ![ps].pc = "read"]
            /\ inReady' = Tail(inReady)
            /\ UNCHANGED <<hReg, inRd, inDispatched>>
       ELSE LET p == ProcessBuffer(Head(inRd), <<>>)
                r == IF p.msgs = <<>> THEN [raised |-> "ValueError", kind |-> "", fields |-> <<>>]
                     ELSE ResponseFactory(p.msgs[1])
            IN
            /\ inRd' = Tail(inRd)
            /\ IF p.msgs = <<>> \/ r.raised = "ValueError"
               THEN /\ hReg' = next.reg
                    /\ hTask' = next.task
                    /\ inReady' = Append(Tail(inReady), "PS")
                    /\ UNCHANGED inDispatched
               ELSE IF r.raised # ""
               THEN /\ hTask' = [hTask EXCEPT ![ps].st = "done"]
                    /\ inReady' = Tail(inReady)
                    /\ UNCHANGED <<hReg, inDispatched>>
               ELSE /\ hTask' = [hTask EXCEPT ![ps].pc = "gather"]
                    /\ inDispatched' = Append(inDispatched, [kind |-> r.kind, fields |-> r.fields])
                    /\ inReady' = Append(Tail(inReady), "L")
                    /\ UNCHANGED hReg
    /\ UNCHANGED <<inStream, inH, inReg, inHandled, inCk, inModel,
                   status, is_alive, cache_alive, alive_event, hQueue, hAccepted, hWire, inRest>>

\* _async_event_handler(DATA_RECEIVED, response=...): add_task starts
\* _handle_data_received unless the name is registered; the listener task
\* is then done, which schedules gather's callback.
InListener ==
    /\ inReady # <<>> /\ Head(inReady) = "L"
    /\ LET resp == inDispatched[Len(inDispatched)] IN
       IF AddTaskStarts(inReg, "handle_data_received")
       THEN /\ inReg' = RegPut(inReg, "handle_data_received", InTaskId("handle_data_received"))
            /\ inH' = [st |-> "ready", kind |-> resp.kind, fields |-> resp.fields]
            /\ inReady' = Tail(inReady) \o <<"H", "G">>
       ELSE /\ inReady' = Append(Tail(inReady), "G")
            /\ UNCHANGED <<inReg, inH>>
    /\ UNCHANGED <<inStream, inRd, inDispatched, inHandled, inCk, inModel,
                   status, is_alive, cache_alive, alive_event, hVars, inRest>>

\* _handle_data_received(response): the handler of the response's class runs
\* to its end (none of them suspends: the async ones only queue commands or
\* log).  StatusAlive goes to _handle_operational_state, which sets the
\* liveness signal and stores field_is_alive; StatusID goes to
\* _handle_system_state, which stores the device id.
InHandleData ==
    /\ inReady # <<>> /\ Head(inReady) = "H"
    /\ inH.st = "ready"
    /\ inHandled' = Append(inHandled, [kind |-> inH.kind, fields |-> inH.fields])
    /\ inH' = [inH EXCEPT !.st = "done"]
    /\ inReady' = Append(Tail(inReady), "C")
    /\ IF inH.kind = "StatusAlive" /\ inH.fields # <<>>
       THEN /\ alive_event' = TRUE
            /\ LET u == UpdateIsAlive(is_alive, cache_alive, FieldIsAlive(inH.fields)) IN
               is_alive' = u.is_alive /\ cache_alive' = u.cache_alive
            /\ UNCHANGED inModel
       ELSE IF inH.kind = "StatusID"
       THEN /\ inModel' = IF inH.fields # <<>> THEN "X" ELSE NoModel
            /\ UNCHANGED <<alive_event, is_alive, cache_alive>>
       ELSE UNCHANGED <<alive_event, is_alive, cache_alive, inModel>>
    /\ UNCHANGED <<inStream, inRd, inReg, inDispatched, inCk, status, hVars, inRest>>

\* gather's callback on the finished listener task sets invoke_event's
\* result, which makes process_stream ready.
InGatherDone ==
    /\ inReady # <<>> /\ Head(inReady) = "G"
    /\ inReady' = Append(Tail(inReady), "PS")
    /\ UNCHANGED <<inStream, inRd, inH, inReg, inDispatched, inHandled, inCk, inModel,
                   status, is_alive, cache_alive, alive_event, hVars, inRest>>

\* TaskManager._handle_task_completion of the handle_data_received task
InTaskCompletion ==
    /\ inReady # <<>> /\ Head(inReady) = "C"
    /\ inReg' = RegPop(inReg, "handle_data_received")
    /\ inH' = InNoHandle
    /\ inReady' = Tail(inReady)
    /\ UNCHANGED <<inStream, inRd, inDispatched, inHandled, inCk, inModel,
                   status, is_alive, cache_alive, alive_event, hVars, inRest>>

\* _check_device_alive() up to its first suspension: the wait for the
\* liveness signal (send_command and queue_command do not suspend).
InCheckAlive ==
    /\ inCk = "idle"
    /\ HCanTrigger
    /\ IF ~is_connected
       THEN /\ inCk' = "false_not_connected"
            /\ UNCHANGED <<alive_event, hQueue, hAccepted, hReg, hTask>>
       ELSE LET q == QueueCommand(<<ProbeCommand>>) IN
            /\ alive_event' = FALSE
            /\ hQueue' = q.queue
            /\ hAccepted' = q.accepted
            /\ hReg' = q.reg
            /\ hTask' = q.task
            /\ inCk' = IF SendCommandRaises THEN "false_disconnected" ELSE "wait"
    /\ UNCHANGED <<inStream, inRd, inReady, inH, inReg, inDispatched, inHandled, inModel,
                   status, is_alive, cache_alive, hWire, inRest>>

\* wait_for(alive_event.wait(), timeout) returns: the signal was set.  With
\* no model name known yet the power and id queries are queued and the
\* periodic health check is started; the result is is_alive.
InCheckResume ==
    /\ inCk = "wait"
    /\ alive_event
    /\ HCanTrigger
    /\ inCk' = IF is_alive THEN "true" ELSE "false_not_alive"
    /\ IF inModel = NoModel
       THEN LET q == QueueCommand(<<CMD_DEVICE_START \o STATUS_POWER,
                                     CMD_DEVICE_START \o STATUS_ID>>) IN
            /\ hQueue' = q.queue
            /\ hAccepted' = q.accepted
            /\ hReg' = q.reg
            /\ hTask' = q.task
            /\ inReg' = IF AddTaskStarts(inReg, "periodic_alive_check")
                        THEN RegPut(inReg, "periodic_alive_check", InTaskId("periodic_alive_check"))
                        ELSE inReg
       ELSE UNCHANGED <<hQueue, hAccepted, hReg, hTask, inReg>>
    /\ UNCHANGED <<inStream, inRd, inReady, inH, inDispatched, inHandled, inModel,
                   status, is_alive, cache_alive, alive_event, hWire, inRest>>

\* wait_for's timeout fires before the signal is set: TimeoutError, the
\* check logs and returns False.
InCheckTimeout ==
    /\ inCk = "wait"
    /\ ~alive_event
    /\ inCk' = "false_timeout"
    /\ UNCHANGED <<inStream, inRd, inReady, inH, inReg, inDispatched, inHandled, inModel,
                   status, is_alive, cache_alive, alive_event, hVars, inRest>>

(***************************************************************************)
(* One _reconnect_loop at a time, with its max_retries argument, next to   *)
(* the events that change what its loop head reads: the CONNECTED listener *)
(* (which also cancels the registered loop), a lost connection, close()    *)
(* and enable_reconnect().                                                 *)
(***************************************************************************)
MaxRetriesArg == 2

MaxRuns == 2

\* the counters stop here when the budget is the default
RlCap == MaxRetriesArg + 2

\* max_retries = max_retries or (24 * 60 * 60) // retry_delay
EffectiveRetries(arg) == IF arg = None \/ arg = 0 THEN max_retries ELSE arg

\* attempts += 1
NextAttemptsStuck(n) == n

NextAttempts(n) == n + 1

RlDone == {"connected", "exhausted", "closing", "disabled", "cancelled"}

\* the loop head for the given attempts: leave, or call open()
RlHead(attempts) ==
    LET exit == LoopExit(attempts, rlMax) IN
    IF exit # "" THEN [pc |-> exit, opens |-> rlOpens]
    ELSE [pc |-> "opening", opens |-> rlOpens + 1]

RlIdle ==
    /\ rlMax = 0
    /\ rlPc = "idle"
    /\ rlAttempts = 0
    /\ rlOpens = 0
    /\ rlPending = FALSE
    /\ rlRuns = 0
    /\ rlLastOpen = "none"

\* the _reconnect_loop(max_retries=arg) task is created
RlStart(arg) ==
    /\ rlPc \in {"idle"} \cup RlDone
    /\ rlRuns < MaxRuns
    /\ rlRuns' = rlRuns + 1
    /\ rlMax' = EffectiveRetries(arg)
    /\ rlAttempts' = 0
    /\ rlOpens' = 0
    /\ rlPc' = "top"
    /\ rlLastOpen' = "none"
    /\ UNCHANGED <<rlPending, dmVars, tmVars, dispVars, hVars, frVars, inVars, cxVars, twVars>>

\* the task's first step: the loop head, up to await self.open()
RlTop ==
    /\ rlPc = "top"
    /\ rlOpens < RlCap
    /\ rlPc' = RlHead(rlAttempts).pc
    /\ rlOpens' = RlHead(rlAttempts).opens
    /\ UNCHANGED <<rlMax, rlAttempts, rlPending, rlRuns, rlLastOpen,
                   dmVars, tmVars, dispVars, hVars, frVars, inVars, cxVars, twVars>>

\* open() returns: the handler scheduled the CONNECTED event, which has not
\* been handled yet; `if self.is_connected: return`, else the retry delay
RlOpenOk ==
    /\ rlPc = "opening"
    /\ rlPending' = TRUE
    /\ rlLastOpen' = "ok"
    /\ rlPc' = IF is_connected THEN "connected" ELSE "sleep"
    /\ UNCHANGED <<rlMax, rlAttempts, rlOpens, rlRuns,
                   dmVars, tmVars, dispVars, hVars, frVars, inVars, cxVars, twVars>>

\* open() raises TimeoutError or OSError: logged; the retry delay unless
\* connected, then attempts += 1 and the loop head
RlOpenFails ==
    /\ rlPc = "opening"
    /\ rlAttempts < RlCap /\ rlOpens < RlCap
    /\ rlLastOpen' = "failed"
    /\ IF is_connected
       THEN /\ rlAttempts' = NextAttempts(rlAttempts)
            /\ rlPc' = RlHead(NextAttempts(rlAttempts)).pc
            /\ rlOpens' = RlHead(NextAttempts(rlAttempts)).opens
       ELSE /\ rlPc' = "sleep"
            /\ UNCHANGED <<rlAttempts, rlOpens>>
    /\ UNCHANGED <<rlMax, rlPending, rlRuns, dmVars, tmVars, dispVars, hVars, frVars, inVars, cxVars, twVars>>

\* asyncio.sleep(retry_delay) is over: attempts += 1 and the loop head
RlSleepOver ==
    /\ rlPc = "sleep"
    /\ rlAttempts < RlCap /\ rlOpens < RlCap
    /\ rlAttempts' = NextAttempts(rlAttempts)
    /\ rlPc' = RlHead(NextAttempts(rlAttempts)).pc
    /\ rlOpens' = RlHead(NextAttempts(rlAttempts)).opens
    /\ UNCHANGED <<rlMax, rlPending, rlRuns, rlLastOpen, dmVars, tmVars, dispVars, hVars, frVars, inVars, cxVars, twVars>>

\* _async_event_handler(CONNECTION_STATE, CONNECTED): the status is set and
\* cancel_task("reconnect_loop") cancels the loop when it is the task
\* registered under that name
RlConnected(registered) ==
    /\ rlPending
    /\ rlPending' = FALSE
    /\ status' = "CONNECTED"
    /\ rlPc' = IF registered /\ rlPc \in {"top", "opening", "sleep"} THEN "cancelled" ELSE rlPc
    /\ UNCHANGED <<rlMax, rlAttempts, rlOpens, rlRuns, rlLastOpen, connection_type, info, debug_disabled, handler, closing,
                   reconnect_enabled, is_alive, cache_alive, alive_event, dmReg, dmTask, dmEvt, hdl,
                   dmClose, tmVars, dispVars, hVars, frVars, inVars, cxVars, twVars>>

\* _async_event_handler(CONNECTION_STATE, DISCONNECTED): the connection was lost
RlLost ==
    /\ status = "CONNECTED"
    /\ status' = "DISCONNECTED"
    /\ UNCHANGED <<rlMax, rlPc, rlAttempts, rlOpens, rlPending, rlRuns, rlLastOpen, connection_type, info, debug_disabled,
                   handler, closing, reconnect_enabled, is_alive, cache_alive, alive_event, dmReg,
                   dmTask, dmEvt, hdl, dmClose, tmVars, dispVars, hVars, frVars, inVars, cxVars, twVars>>

\* DeviceManager.close() sets context.connection.closing
RlClose ==
    /\ ~closing
    /\ closing' = TRUE
    /\ UNCHANGED <<rlMax, rlPc, rlAttempts, rlOpens, rlPending, rlRuns, rlLastOpen, connection_type, info, debug_disabled,
                   status, handler, reconnect_enabled, is_alive, cache_alive, alive_event, dmReg,
                   dmTask, dmEvt, hdl, dmClose, tmVars, dispVars, hVars, frVars, inVars, cxVars, twVars>>

\* the arguments enable_reconnect is called with: the two bool values and a
\* value of another type
EnableArgs == {"True", "False", "not_a_bool"}

\* isinstance(enable, bool)
IsBool(enable) == enable \in {"True", "False"}

BoolOf(enable) == enable = "True"

EnableReconnectSame ==
    [raised |-> "none", reconnect_enabled |-> reconnect_enabled, status |-> status,
     handler |-> handler, dmReg |-> dmReg, dmTask |-> dmTask]

EnableReconnectCancels(enable) ==
    IF ~IsBool(enable) THEN [EnableReconnectSame EXCEPT !.raised = "TypeError"]
    ELSE IF reconnect_enabled = BoolOf(enable) THEN EnableReconnectSame
    ELSE [EnableReconnectSame EXCEPT !.reconnect_enabled = BoolOf(enable),
                                     !.dmReg = RegPop(dmReg, "reconnect_loop")]

\* enable_reconnect(enable): TypeError for a non-bool, nothing when the flag
\* already has the value, else config.reconnect_enabled = enable
EnableReconnect(enable) ==
    IF ~IsBool(enable) THEN [EnableReconnectSame EXCEPT !.raised = "TypeError"]
    ELSE IF reconnect_enabled = BoolOf(enable) THEN EnableReconnectSame
    ELSE [EnableReconnectSame EXCEPT !.reconnect_enabled = BoolOf(enable)]

\* DeviceManager.enable_reconnect(enable)
RlEnableReconnect(enable) ==
    /\ LET u == EnableReconnect(enable) IN
       /\ reconnect_enabled' = u.reconnect_enabled
       /\ status' = u.status
       /\ handler' = u.handler
       /\ dmReg' = u.dmReg
       /\ dmTask' = u.dmTask
    /\ UNCHANGED <<rlMax, rlPc, rlAttempts, rlOpens, rlPending, rlRuns, rlLastOpen, connection_type, info, debug_disabled,
                   closing, is_alive, cache_alive, alive_event,
                   dmEvt, hdl, dmClose, tmVars, dispVars, hVars, frVars, inVars, cxVars, twVars>>

(***************************************************************************)
(* The CONNECTION_STATE listener under any event: the dispatcher is public *)
(* (DeviceManager.dispatcher), so the listener can be handed any state     *)
(* value at any time, next to the events the handlers dispatch themselves. *)
(***************************************************************************)
EventStates == ConnectionStatusValues \cup {"INVALID_STATE"}

\* dispatcher.invoke_event(EventType.CONNECTION_STATE, state=state)
EvInvoke(state) ==
    /\ EvFree(dmEvt) # {}
    /\ dmEvt' = InvokeEvent(dmEvt, state, None, NoTask)
    /\ UNCHANGED <<connection_type, info, debug_disabled, status, handler, closing, reconnect_enabled,
                   is_alive, cache_alive, alive_event, dmReg, dmTask, hdl, dmClose, notDmVars>>

\* _device_info_callback(updated_device_info), with a DeviceInfo that differs
DeviceInfoCallback ==
    /\ info # "DeviceInfo"
    /\ DmSet([info |-> "DeviceInfo"])

(***************************************************************************)
(* SpecCodec: BufferManager.adjust_buffer and the decoding of one encoded  *)
(* message, each applied once to an input drawn from a bounded set.        *)
(***************************************************************************)
MaxBuf == 3

MaxFields == 2

\* the strings of at most n characters over the set chars
StringsUpTo(chars, n) == UNION {[1..k -> chars] : k \in 0..n}

\* buffers: short strings of sentinels and noise, and the longer keywords
\* in either case between such strings
CxBuffers ==
    StringsUpTo({"#", "!", "g"}, MaxBuf)
    \cup {pre \o kw \o suf :
            pre \in StringsUpTo({"#", "!", "g"}, MaxBuf - 1),
            kw \in {<<"p", "o", "w", "e", "r">>, <<"P", "O", "W", "E", "R">>,
                    <<"#", "Z", "Q", "S", "1">>, <<"#", "z", "q", "s", "1">>},
            suf \in {<<>>, <<"g">>}}

CxNames == {<<>>, <<"N">>, <<"S", "0", "0">>}

CxFields == {<<>>, <<"a">>, <<"O", "k">>, <<"a", " ", "b">>}

CxFieldLists == UNION {[1..k -> CxFields] : k \in 0..MaxFields}

\* ",".join(fields)
RECURSIVE Join(_, _)
Join(fields, sep) ==
    IF fields = <<>> THEN <<>>
    ELSE IF Len(fields) = 1 THEN Head(fields)
    ELSE Head(fields) \o sep \o Join(Tail(fields), sep)

\* "!" + name + "," + ",".join(fields) + "\n"
Encode(name, fields) == <<"!">> \o name \o <<",">> \o Join(fields, <<",">>) \o TERMINATOR

\* device texts: the two power announcements, alone, inside other text and
\* in another case
CxTexts ==
    {pre \o t \o suf : pre \in {<<>>, <<"!">>, <<"g", " ">>},
                        t \in {PowerOffText, PowerUpText, Lower(PowerOffText), Lower(PowerUpText)},
                        suf \in {<<>>, <<",", "9">>}}

CxNone == [op |-> "none", buf |-> <<>>, name |-> <<>>, fields |-> <<>>]

CxIdle ==
    /\ cxIn = [kind |-> "none", buf |-> <<>>, name |-> <<>>, fields |-> <<>>]
    /\ cxOut = CxNone

CxInit ==
    /\ cxIn \in {[kind |-> "buffer", buf |-> b, name |-> <<>>, fields |-> <<>>] :
                    b \in CxBuffers}
              \cup {[kind |-> "message", buf |-> Encode(n, f), name |-> n, fields |-> f] :
                    n \in CxNames, f \in CxFieldLists}
              \cup {[kind |-> "text", buf |-> t, name |-> <<>>, fields |-> <<>>] :
                    t \in CxTexts}
    /\ cxOut = CxNone

\* buffer_manager.adjust_buffer(["power", "#ZQS1", "!", "#"])
CxAdjustBuffer ==
    /\ cxIn.kind = "buffer" /\ cxOut.op = "none"
    /\ cxOut' = [op |-> "adjust_buffer", buf |-> AdjustBuffer(cxIn.buf, SyncKeywords),
                 name |-> <<>>, fields |-> <<>>]
    /\ UNCHANGED <<cxIn, tmVars, dispVars, hVars, frVars, dmVars, inVars, rlVars, twVars>>

\* process_message(): extract_message(), then Response.factory builds a
\* MessageParser on the message
CxDecode ==
    /\ cxIn.kind = "message" /\ cxOut.op = "none"
    /\ LET e == ExtractMessage(cxIn.buf)
           m == MessageParser(e.msg)
       IN cxOut' = [op |-> "decode", buf |-> e.buf, name |-> m.name, fields |-> m.fields]
    /\ UNCHANGED <<cxIn, tmVars, dispVars, hVars, frVars, dmVars, inVars, rlVars, twVars>>

\* MessageParser(message) on a text of the device
CxParse ==
    /\ cxIn.kind = "text" /\ cxOut.op = "none"
    /\ LET m == MessageParser(cxIn.buf)
       IN cxOut' = [op |-> "parse", buf |-> <<>>, name |-> m.name, fields |-> m.fields]
    /\ UNCHANGED <<cxIn, tmVars, dispVars, hVars, frVars, dmVars, inVars, rlVars, twVars>>

(***************************************************************************)
(* SpecInstances: DeviceManager instances constructed in one process.      *)
(* An object is named by a number: ClassDefault is the object a dataclass  *)
(* field default was evaluated to in the class body, m is an object        *)
(* created while instance m was constructed.                               *)
(***************************************************************************)
MaxManagers == 2

TwIds == 1..MaxManagers

ClassDefault == 0

TwObjects == {ClassDefault} \cup TwIds

EventTypes == {"connection_state", "data_received"}

TwNames == {"run_once_at_startup", "retry_alive_check"}

\* The value of a dataclass field in a new instance: `x: T = T()` is one
\* object, evaluated when the class body runs, that every instance built
\* without that argument shares; an argument gives the object passed.
FieldObject(how, m) == IF how = "class_default" THEN ClassDefault ELSE m

\* ConnectionManager(config=ConnectionConfig(reconnect_enabled=reconnect))
ConnectionManager(m) ==
    [config       |-> FieldObject("argument", m),
     task_manager |-> FieldObject("class_default", m),
     dispatcher   |-> FieldObject("class_default", m)]

\* DeviceState()
DeviceState(m) == [alive_event |-> FieldObject("class_default", m)]

TwInit ==
    /\ twObj = [m \in TwIds |-> [made |-> FALSE, dispatcher |-> ClassDefault,
                                  task_manager |-> ClassDefault,
                                  alive_event |-> ClassDefault]]
    /\ twListeners = [o \in TwObjects |-> [et \in EventTypes |-> <<>>]]
    /\ twReg = [o \in TwObjects |-> [n \in TwNames |-> NoTask]]
    /\ twTasks = {}
    /\ twSignal = [o \in TwObjects |-> FALSE]
    /\ twCalls = {}

TwRest == <<tmVars, dispVars, hVars, frVars, dmVars, inVars, rlVars, cxVars>>

\* task_manager.add_task(coro, name) called by instance m
TwAdd(obj, reg, tasks, m, n) ==
    LET tm == obj[m].task_manager IN
    IF AddTaskStarts(reg[tm], n)
    THEN [reg |-> [reg EXCEPT ![tm] = RegPut(@, n, m)], tasks |-> tasks \cup {<<m, n>>}]
    ELSE [reg |-> reg, tasks |-> tasks]

\* DeviceManager(connection_type, reconnect): the context, the two listeners
\* and the startup task
TwConstruct(m) ==
    /\ ~twObj[m].made
    /\ LET c == ConnectionManager(m)
           d == DeviceState(m)
           o == [twObj EXCEPT ![m] = [made |-> TRUE, dispatcher |-> c.dispatcher,
                                      task_manager |-> c.task_manager,
                                      alive_event |-> d.alive_event]]
           a == TwAdd(o, twReg, twTasks, m, "run_once_at_startup")
       IN
       /\ twObj' = o
       /\ twListeners' = [twListeners EXCEPT ![c.dispatcher] =
                             [et \in EventTypes |-> Append(@[et], m)]]
       /\ twReg' = a.reg
       /\ twTasks' = a.tasks
    /\ UNCHANGED <<twSignal, twCalls, TwRest>>

\* instance m adds a task (the CONNECTED handler's "retry_alive_check")
TwAddTask(m, n) ==
    /\ twObj[m].made
    /\ LET a == TwAdd(twObj, twReg, twTasks, m, n) IN
       twReg' = a.reg /\ twTasks' = a.tasks
    /\ UNCHANGED <<twObj, twListeners, twSignal, twCalls, TwRest>>

\* a task ends and its completion callback pops its name from the task
\* manager it was added to
TwTaskEnd(m, n) ==
    /\ <<m, n>> \in twTasks
    /\ twTasks' = twTasks \ {<<m, n>>}
    /\ twReg' = [twReg EXCEPT ![twObj[m].task_manager] = RegPop(@, n)]
    /\ UNCHANGED <<twObj, twListeners, twSignal, twCalls, TwRest>>

\* instance m calls task_manager.cancel_task(name); the task settles
TwCancelTask(m, n) ==
    /\ twObj[m].made
    /\ LET tm == twObj[m].task_manager IN
       /\ twReg[tm][n] # NoTask
       /\ twTasks' = twTasks \ {<<twReg[tm][n], n>>}
       /\ twReg' = [twReg EXCEPT ![tm] = RegPop(@, n)]
    /\ UNCHANGED <<twObj, twListeners, twSignal, twCalls, TwRest>>

\* instance m's close(): task_manager.cancel_all_tasks(); the tasks settle
TwCancelAll(m) ==
    /\ twObj[m].made
    /\ LET tm == twObj[m].task_manager IN
       /\ RegValues(twReg[tm]) # {}
       /\ twTasks' = twTasks \ {<<twReg[tm][n], n>> : n \in TwNames}
       /\ twReg' = [twReg EXCEPT ![tm] = RegClear(@)]
    /\ UNCHANGED <<twObj, twListeners, twSignal, twCalls, TwRest>>

\* the handler of instance m, built on context.connection.dispatcher, calls
\* invoke_event(event_type, ...): every listener of that dispatcher is called
TwInvokeEvent(m, et) ==
    /\ twObj[m].made
    /\ LET l == twListeners[twObj[m].dispatcher][et] IN
       twCalls' = twCalls \cup {<<m, l[k]>> : k \in 1..Len(l)}
    /\ UNCHANGED <<twObj, twListeners, twReg, twTasks, twSignal, TwRest>>

\* instance m: alive_event.set() (_handle_operational_state) and
\* alive_event.clear() (_check_device_alive)
TwAliveEvent(m, value) ==
    /\ twObj[m].made
    /\ twSignal' = [twSignal EXCEPT ![twObj[m].alive_event] = value]
    /\ UNCHANGED <<twObj, twListeners, twReg, twTasks, twCalls, TwRest>>

(***************************************************************************)
(* The specifications.                                                     *)
(***************************************************************************)
TmNext ==
    \/ \E n \in TmNames : TmAddTask(n)
    \/ \E id \in TmIds : TmTaskEnd(id)
    \/ \E id \in TmIds : TmCompletion(id)
    \/ \E n \in TmNames : TmCancelTask(n)
    \/ TmCancelTaskResume
    \/ TmCancelAll
    \/ TmCancelAllResume

TmSpecInit == TmInit /\ DInit /\ HInit /\ FrIdle /\ DmIdle /\ InIdle /\ RlIdle /\ CxIdle /\ TwInit

SpecTM == TmSpecInit /\ [][TmNext]_vars

DNext ==
    \/ \E kind \in ListenerKinds : DRegister(kind)
    \/ DInvoke
    \/ DLoopStep
    \/ DLoopEnd
    \/ \E k \in 1..MaxListeners : DAsyncStart(k)
    \/ \E k \in 1..MaxListeners : DAsyncEnd(k)
    \/ DGatherReturn
    \/ DGatherRaise

DSpecInit == TmInit /\ DInit /\ HInit /\ FrIdle /\ DmIdle /\ InIdle /\ RlIdle /\ CxIdle /\ TwInit

SpecDispatch == DSpecInit /\ [][DNext]_vars

HNext ==
    \/ \E command \in Commands : HQueueCommand(command)
    \/ \E id \in HIds : HMessageCycle(id)
    \/ \E id \in HIds : HTaskCancelled(id)
    \/ \E id \in HIds : HSenderStep(id)
    \/ \E id \in HIds : HSendReturns(id)
    \/ \E id \in HIds : HCompletion(id)
    \/ HCloseStart
    \/ HCloseGathered
    \/ HCloseDone

HSpecInit == TmInit /\ DInit /\ HInit /\ FrIdle /\ DmIdle /\ InIdle /\ RlIdle /\ CxIdle /\ TwInit

SpecHandler == HSpecInit /\ [][HNext]_vars

\* The event loop runs every ready task step and callback: the sender's
\* steps, the return of send() (no send failure, no stalled transport) and
\* the completion callbacks happen once they can.  Calls of queue_command,
\* inbound messages and close() are the environment's and may never come.
HFairness ==
    /\ WF_vars(\E id \in HIds : HSenderStep(id))
    /\ WF_vars(\E id \in HIds : HSendReturns(id))
    /\ WF_vars(\E id \in HIds : HTaskCancelled(id))
    /\ WF_vars(\E id \in HIds : HCompletion(id))

SpecHandlerFair == HSpecInit /\ [][HNext]_vars /\ HFairness

FrNext ==
    \/ \E k \in 1..MaxStream : FrFeed(k)
    \/ FrReadSingleByte
    \/ FrReadUntilReturns
    \/ FrReadUntilTimeout
    \/ FrReadAnyReturns
    \/ FrReadAnyTimeout

FrSpecInit == TmInit /\ DInit /\ HInit /\ FrInit /\ DmIdle /\ InIdle /\ RlIdle /\ CxIdle /\ TwInit

SpecFramer == FrSpecInit /\ [][FrNext]_vars

DmNext ==
    \/ DmOpen
    \/ \E h \in HandlerIds : ConnectionLost(h)
    \/ \E e \in EvIds : EvConnected(e)
    \/ \E e \in EvIds : EvDisconnected(e)
    \/ \E i \in DmIds : ReconnectLoop(i)
    \/ \E i \in DmIds : RetryAliveCheck(i)
    \/ \E i \in DmIds : HealthCheck(i)
    \/ \E i \in DmIds : RunOnceAtStartup(i)
    \/ \E kind \in DataKinds : DataReceived(kind)
    \/ \E i \in DmIds : HandleDataReceived(i)
    \/ \E i \in DmIds : DmTaskCancelled(i)
    \/ \E i \in DmIds : DmCompletion(i)
    \/ DmCloseCall
    \/ DmCloseStep

Init == TmInit /\ DInit /\ HInit /\ FrIdle /\ DmInit /\ InIdle /\ RlIdle /\ CxIdle /\ TwInit

Spec == Init /\ [][DmNext]_vars

\* The inbound pipeline: the device's lines arrive at any time, the loop
\* runs its ready callbacks in order, the sender task and the alive check
\* advance on I/O and timers.
InNext ==
    \/ InArrive
    \/ InProcessStream
    \/ InListener
    \/ InHandleData
    \/ InGatherDone
    \/ InTaskCompletion
    \/ InCheckAlive
    \/ InCheckResume
    \/ InCheckTimeout
    \/ \E id \in HIds : HSenderStep(id)
    \/ \E id \in HIds : HSendReturns(id)
    \/ \E id \in HIds : HCompletion(id)

InSpecInit == TmInit /\ DInit /\ HInit /\ FrIdle /\ InInit /\ RlIdle /\ CxIdle /\ TwInit

SpecInbound == InSpecInit /\ [][InNext]_vars

\* The reconnect loop and the events around it.
RlNext ==
    \/ \E arg \in 0..MaxRetriesArg : RlStart(arg)
    \/ RlTop
    \/ RlOpenOk
    \/ RlOpenFails
    \/ RlSleepOver
    \/ \E registered \in BOOLEAN : RlConnected(registered)
    \/ RlLost
    \/ RlClose
    \/ \E enable \in EnableArgs : RlEnableReconnect(enable)

RlSpecInit == TmInit /\ DInit /\ HInit /\ FrIdle /\ DmInit /\ InIdle /\ RlIdle /\ CxIdle /\ TwInit

SpecReconnect == RlSpecInit /\ [][RlNext]_vars

\* The lifecycle with a dispatcher that is also invoked from outside.
EvNext ==
    \/ DmOpen
    \/ \E state \in EventStates : EvInvoke(state)
    \/ \E e \in EvIds : EvConnected(e)
    \/ \E e \in EvIds : EvDisconnected(e)
    \/ DeviceInfoCallback
    \/ \E enable \in EnableArgs : RlEnableReconnect(enable)
    \/ \E i \in DmIds : ReconnectLoop(i)
    \/ \E i \in DmIds : RetryAliveCheck(i)
    \/ \E kind \in DataKinds : DataReceived(kind)
    \/ \E i \in DmIds : HandleDataReceived(i)
    \/ \E i \in DmIds : DmTaskCancelled(i)
    \/ \E i \in DmIds : DmCompletion(i)

\* (the transport type plays no part in these actions)
EvSpecInit ==
    TmInit /\ DInit /\ HInit /\ FrIdle /\ DmInit /\ connection_type = "ip" /\ InIdle /\ RlIdle /\ CxIdle /\ TwInit

SpecEvent == EvSpecInit /\ [][EvNext]_vars

\* A manager whose first serial connection was lost: open(), the CONNECTED
\* event handled, the alive check answered and its task finished, then
\* connection_lost and the DISCONNECTED event, which reset the state and
\* scheduled the reconnect loop.  The lost handler is referenced by nothing
\* any more and is not tracked.
DmAfterLoss ==
    /\ connection_type = "serial"
    /\ reconnect_enabled = TRUE
    /\ status = "DISCONNECTED"
    /\ handler = None
    /\ closing = FALSE
    /\ is_alive = FALSE
    /\ cache_alive = CacheOf(TRUE)
    /\ alive_event = TRUE
    /\ info = NoInfo
    /\ debug_disabled = FALSE
    /\ dmReg = [n \in DmNames |-> IF n = "run_once_at_startup" THEN 1
                                  ELSE IF n = "reconnect_loop" THEN 2 ELSE NoTask]
    /\ dmTask = [i \in DmIds |->
                   IF i = 1
                   THEN [DmFreeTask EXCEPT !.name = "run_once_at_startup", !.st = "run", !.pc = "poll"]
                   ELSE IF i = 2
                   THEN [DmFreeTask EXCEPT !.name = "reconnect_loop", !.st = "run", !.pc = "top"]
                   ELSE DmFreeTask]
    /\ dmEvt = [e \in EvIds |-> EvFreeJob]
    /\ hdl = [h \in HandlerIds |-> [transport |-> "none", tasks |-> "none"]]
    /\ dmClose = [pc |-> "idle", h |-> None, wait |-> {}, released |-> FALSE]

AlSpecInit ==
    TmInit /\ DInit /\ HInit /\ FrIdle /\ (DmAfterLoss \/ DmIdle) /\ InIdle /\ RlIdle /\ CxIdle /\ TwInit

\* The DeviceManager's life from the loss of its first serial connection on
\* (and, for the IP transport, which reports no loss, from construction).
SpecAfterLoss == AlSpecInit /\ [][DmNext]_vars

\* The buffer and message functions, applied to every input of the bounds.
CxNext ==
    \/ CxAdjustBuffer
    \/ CxDecode
    \/ CxParse

CxSpecInit == TmInit /\ DInit /\ HInit /\ FrIdle /\ DmIdle /\ InIdle /\ RlIdle /\ CxInit /\ TwInit

SpecCodec == CxSpecInit /\ [][CxNext]_vars

TwNext ==
    \/ \E m \in TwIds : TwConstruct(m)
    \/ \E m \in TwIds, n \in TwNames : TwAddTask(m, n)
    \/ \E m \in TwIds, n \in TwNames : TwTaskEnd(m, n)
    \/ \E m \in TwIds, n \in TwNames : TwCancelTask(m, n)
    \/ \E m \in TwIds : TwCancelAll(m)
    \/ \E m \in TwIds, et \in EventTypes : TwInvokeEvent(m, et)
    \/ \E m \in TwIds, value \in BOOLEAN : TwAliveEvent(m, value)

TwSpecInit == TmInit /\ DInit /\ HInit /\ FrIdle /\ DmIdle /\ InIdle /\ RlIdle /\ CxIdle /\ TwInit

SpecInstances == TwSpecInit /\ [][TwNext]_vars

(***************************************************************************)
(* Claims.                                                                 *)
(***************************************************************************)

\* C4: add_task with a name that already has a task in the registry returns
\* the existing handle, leaves the registry unchanged and starts no new task.
C4_AddTaskDedup ==
    [][ ( /\ tmLast' # tmLast
          /\ tmLast'.op = "add_task"
          /\ tmReg[tmLast'.name] # NoTask )
        => ( /\ tmLast'.ret = tmReg[tmLast'.name]
             /\ tmReg' = tmReg
             /\ tmTask' = tmTask ) ]_vars

\* C4 witness: a duplicate add_task returned the handle of a task that has
\* not settled yet.
C4_Witness ==
    /\ tmLast.op = "add_task"
    /\ tmLast.dup
    /\ tmTask[tmLast.ret].st = "run"
    /\ Cardinality({i \in TmIds : tmTask[i].st # "free"}) = 1

HSenders == {i \in HIds : hTask[i].name = "process_next_command" /\ hTask[i].st = "run"}

\* C1: at most one "process_next_command" task is active and at most one
\* transport send is in progress at any time.
C1_OneSenderInFlight ==
    /\ Cardinality(HSenders) <= 1
    /\ Cardinality({i \in HSenders : hTask[i].pc = "send"}) <= 1

RECURSIVE Frames(_)
Frames(cmds) == IF cmds = <<>> THEN <<>> ELSE <<Frame(Head(cmds))>> \o Frames(Tail(cmds))

\* C2: the frames handed to send are a prefix of the accepted commands in
\* arrival order, each framed as "#" + c + "{".
C2_WireIsPrefixOfAccepted ==
    /\ IsPrefix(hWire, Frames(hAccepted))
    /\ \A i \in 1..Len(hWire) :
         hWire[i] = <<"#">> \o hAccepted[i] \o <<"{">>

\* C2 witness: commands of two accepted batches have all gone out, a stripped
\* one among them.
C2_Witness ==
    /\ Len(hWire) >= 3
    /\ hWire = Frames(hAccepted)
    /\ hCalls >= 2
    /\ \E i, j \in 1..Len(hWire) : hWire[i] # hWire[j]

\* the reconnect loops that run and have not been asked to stop
ReconnectLoops ==
    {i \in DmIds : dmTask[i].name = "reconnect_loop" /\ dmTask[i].st = "run" /\ ~dmTask[i].creq}

\* C3: at most one "reconnect_loop" task is running at any time.
C3_OneReconnectLoop == Cardinality(ReconnectLoops) <= 1

\* a step in which the CONNECTED listener call e starts
ConnectedStarts(e) ==
    /\ dmEvt[e].state = "CONNECTED" /\ dmEvt[e].st = "ready"
    /\ dmEvt'[e].st # "ready" /\ hdl' = hdl

\* a step in which the CONNECTED listener call e ends
ConnectedEnds(e) ==
    /\ dmEvt[e].state = "CONNECTED" /\ dmEvt[e].st \in {"ready", "await_cancel"}
    /\ dmEvt'[e].st = "free" /\ hdl' = hdl

\* C5: handling CONNECTION_STATE(CONNECTED) sets the status to CONNECTED and
\* cancels the active reconnect loop, and the call ends with a
\* "retry_alive_check" task scheduled, after a reconnection too.
C5_ConnectedSchedulesRetry ==
    [][\A e \in EvIds :
         /\ ConnectedStarts(e) =>
               /\ status' = "CONNECTED"
               /\ dmReg["reconnect_loop"] # NoTask =>
                     dmTask'[dmReg["reconnect_loop"]].st = "done"
                     \/ dmTask'[dmReg["reconnect_loop"]].creq
         /\ ConnectedEnds(e) => dmReg'["retry_alive_check"] # NoTask]_vars

\* a step in which task i calls _handle_disconnection()
HdEnters(i) ==
    /\ dmTask[i].name = "periodic_alive_check" /\ dmTask[i].st = "run"
    /\ dmTask[i].pc \in {"sleep", "wait_alive"}
    /\ dmTask'[i].pc \in {"final", "hd_gather", "hd_wait_closed", "hd_dispatch"}

\* C6: a _handle_disconnection call made while the status is not CONNECTED
\* returns without closing a handler and without dispatching an event; and
\* the DISCONNECTED event a call dispatches leaves the status DISCONNECTED,
\* so the next call in a row is such a call.
C6_HandleDisconnectionIdempotent ==
    [][/\ \A i \in DmIds :
            HdEnters(i) /\ status # "CONNECTED" =>
               /\ dmTask'[i].pc = "final"
               /\ UNCHANGED <<handler, hdl, dmEvt>>
       /\ \A e \in EvIds :
            dmEvt[e].by # NoTask /\ dmEvt[e].st = "ready" /\ dmEvt'[e].st = "done" =>
               status' = "DISCONNECTED"]_vars

\* a call found the status DISCONNECTED and skipped the cleanup
C6_Witness ==
    \E i \in DmIds :
       /\ dmTask[i].name = "periodic_alive_check" /\ dmTask[i].pc = "final"
       /\ dmTask[i].arg = "skipped"
       /\ status = "DISCONNECTED"

\* C7: when close() closes and releases the handler, every named task of
\* the connection has been cancelled and has settled.
C7_CloseSettlesTasksFirst ==
    [][~dmClose.released /\ dmClose'.released =>
          /\ \A i \in DmIds : dmTask'[i].st = "free"
          /\ \A e \in EvIds : dmEvt'[e].st = "free"]_vars

\* C8: at every suspension point, status CONNECTED implies a handler is held.
C8_ConnectedHasHandler == status = "CONNECTED" => handler # None

\* every byte of the stream has been delivered and read; the framer waits
FrQuiescent == frPending = <<>> /\ frRd = <<>> /\ frPc = "read1"

\* C9: however the stream is split into chunks, the messages dispatched are
\* those dispatched when the stream is delivered whole.
C9_FramingIgnoresChunking ==
    FrQuiescent => frMsgs = FrameWhole(frStream, <<>>, <<>>)

DSync == {k \in 1..Len(dListeners) : ~IsCoroutineFn(dListeners[k])}

DAsync == {k \in 1..Len(dListeners) : IsCoroutineFn(dListeners[k])}

\* C10: when invoke_event has returned every listener has finished; no async
\* listener starts before every sync listener has run; sync listeners run in
\* registration order.
C10_InvokeWaitsForAll ==
    /\ dPc = "returned" => \A k \in 1..Len(dListeners) : dState[k] = "finished"
    /\ \A a \in DAsync : dState[a] # "idle" => \A s \in DSync : dState[s] = "finished"
    /\ \A i, j \in 1..Len(dLog) :
         (i < j /\ dLog[i] \in DSync /\ dLog[j] \in DSync) => dLog[i] < dLog[j]

\* C10 witness: an invocation over sync and async listeners has returned.
C10_Witness ==
    /\ dPc = "returned"
    /\ Cardinality(DSync) >= 2
    /\ Cardinality(DAsync) >= 1
    /\ dListeners[1] = "async"

\* C11: when a listener's failure reaches the caller of invoke_event, every
\* registered listener has finished: none was skipped, none is still running.
C11_FailureAfterAllFinish ==
    dPc \in {"raised_sync", "raised_gather"} =>
        \A k \in 1..Len(dListeners) : dState[k] \in {"finished", "failed"}

\* process_stream is about to decode a line for which Response.factory raises
InDecodeFails ==
    /\ inReady # <<>> /\ Head(inReady) = "PS"
    /\ InPs # NoTask /\ hTask[InPs].pc = "run"
    /\ inRd # <<>>
    /\ LET p == ProcessBuffer(Head(inRd), <<>>) IN
       p.msgs # <<>> /\ ResponseFactory(p.msgs[1]).raised # ""

\* C12: a decode failure for one inbound message never ends the
\* process_stream loop: after the step that hits it the task is still
\* running and scheduled for its next iteration, the connection status is
\* unchanged and the sender task has been triggered.
C12_DecodeFailureKeepsLoop ==
    [][(InDecodeFails /\ InProcessStream) =>
          /\ hTask'[InPs].st = "run"
          /\ inReady' # <<>> /\ inReady'[Len(inReady')] = "PS"
          /\ status' = status
          /\ hReg'["process_next_command"] # NoTask]_vars

C14_AliveCheckEndToEnd ==
    [][/\ (InCheckAlive /\ status = "CONNECTED") =>
             /\ alive_event' = FALSE
             /\ hAccepted' = Append(hAccepted, <<"Z", "Q", "S", "0", "0">>)
             /\ inCk' = "wait"
       /\ (InHandleData /\ inH.kind = "StatusAlive" /\ inH.fields = <<<<"O", "k">>>>) =>
             alive_event'
       /\ (inCk = "wait" /\ alive_event /\ inCk' # "wait") => inCk' = "true"]_vars

\* C15: _check_device_alive called while the status is not CONNECTED returns
\* false, leaves the liveness signal as it was and queues nothing.
C15_NotConnectedNoProbe ==
    [][(InCheckAlive /\ status # "CONNECTED") =>
          /\ inCk' = "false_not_connected"
          /\ alive_event' = alive_event
          /\ hQueue' = hQueue
          /\ hAccepted' = hAccepted]_vars

\* the check returned false on a disconnected status while the signal, set
\* before the call, is still set and nothing was ever queued
C15_Witness ==
    /\ inCk = "false_not_connected"
    /\ status = "DISCONNECTED"
    /\ alive_event
    /\ hAccepted = <<>>

\* C17: when the probe is handed to a handler that has no writer or
\* transport to send it on, _check_device_alive ends by invoking the
\* disconnection handling and returning false.
C17_SendFailureDisconnects ==
    (/\ ~inWriter
     /\ inCk \notin {"idle", "wait"}
     /\ \E i \in 1..Len(hWire) : hWire[i] = Frame(ProbeCommand))
        => inCk = "false_disconnected"

\* a step in which the alive check made by task i times out: the task leaves
\* its wait for the liveness signal although the signal is not set
ProbeTimesOut(i) ==
    /\ dmTask[i].name \in {"periodic_alive_check", "retry_alive_check"}
    /\ dmTask[i].st = "run" /\ ~dmTask[i].creq
    /\ dmTask[i].pc = "wait_alive" /\ ~alive_event
    /\ status = "CONNECTED"
    /\ dmTask'[i].pc # "wait_alive"

\* C16: whenever an alive-check probe made while CONNECTED times out, in the
\* periodic health check or in the retry loop, the task goes on into
\* _handle_disconnection (which closes the handler and dispatches
\* DISCONNECTED).
C16_TimeoutDisconnects ==
    [][\A i \in DmIds :
         ProbeTimesOut(i) =>
            dmTask'[i].pc \in {"hd_gather", "hd_wait_closed", "hd_dispatch"}]_vars

\* C18: one _reconnect_loop invocation calls open() at most max_retries
\* times; its counters start at zero; and once attempts has reached
\* max_retries the invocation has ended on its exhausted budget, so it makes
\* no further attempt.
C18_RetryBudget ==
    /\ rlOpens <= rlMax
    /\ rlPc = "top" => rlAttempts = 0 /\ rlOpens = 0
    /\ rlPc # "idle" /\ rlAttempts >= rlMax => rlPc = "exhausted"

\* a second invocation used up its whole budget while still disconnected
C18_Witness ==
    /\ rlPc = "exhausted"
    /\ rlRuns = MaxRuns
    /\ rlMax = MaxRetriesArg
    /\ rlOpens = rlMax /\ rlAttempts = rlMax
    /\ status = "DISCONNECTED"

\* C19: whenever the loop reaches its head (at its start and after every
\* retry delay) while a manual close was requested or reconnection is
\* disabled, it ends there: it neither calls open() nor sleeps.
C19_AbortBeforeAttempt ==
    [][((RlTop \/ RlSleepOver) /\ (closing \/ ~reconnect_enabled)) =>
          /\ rlPc' \in RlDone
          /\ rlOpens' = rlOpens]_vars

\* reconnection was disabled in the middle of the loop, with budget left
\* and no connection: the loop stopped at its next head
C19_Witness ==
    /\ rlPc = "disabled"
    /\ rlAttempts >= 1 /\ rlAttempts < rlMax
    /\ rlOpens = rlAttempts
    /\ ~closing /\ ~reconnect_enabled
    /\ status = "DISCONNECTED"

\* C20: the retry delay is slept only after an unsuccessful attempt: no
\* loop is left sleeping it after its own open() succeeded and the
\* CONNECTED event of that open was handled.
C20_NoSleepAfterSuccess ==
    ~ (/\ rlPc = "sleep"
       /\ rlLastOpen = "ok"
       /\ status = "CONNECTED"
       /\ ~rlPending)
\* C21: handling a CONNECTION_STATE event whose state is DISCONNECTED, or is
\* not a valid state, sets the status to DISCONNECTED, clears the device
\* info, discards the handler and marks liveness false; with automatic
\* reconnection enabled "reconnect_loop" is scheduled through the registry
\* (a new task when the name was free, the registered one otherwise); with
\* it disabled the registry and the tasks are left as they were.
C21_DisconnectedEvent ==
    [][\A e \in EvIds :
         (dmEvt[e].st = "ready" /\ dmEvt[e].state # "CONNECTED" /\ EvDisconnected(e)) =>
            /\ status' = "DISCONNECTED"
            /\ info' = NoInfo
            /\ handler' = None
            /\ is_alive' = FALSE
            /\ reconnect_enabled =>
                  /\ dmReg'["reconnect_loop"] # NoTask
                  /\ dmReg["reconnect_loop"] # NoTask => UNCHANGED <<dmReg, dmTask>>
                  /\ dmReg["reconnect_loop"] = NoTask =>
                        /\ dmTask[dmReg'["reconnect_loop"]].st = "free"
                        /\ dmTask'[dmReg'["reconnect_loop"]].st = "run"
                        /\ dmTask'[dmReg'["reconnect_loop"]].pc = "top"
            /\ ~reconnect_enabled => UNCHANGED <<dmReg, dmTask>>]_vars

\* an event with an invalid state is about to be handled while the manager
\* is connected and alive, holds a handler and device info, and no
\* reconnect loop is registered
C21_Witness ==
    \E e \in EvIds :
        /\ dmEvt[e].st = "ready" /\ dmEvt[e].state = "INVALID_STATE"
        /\ status = "CONNECTED" /\ info = "DeviceInfo" /\ handler # None /\ is_alive
        /\ reconnect_enabled
        /\ dmReg["reconnect_loop"] = NoTask
        /\ \E i \in DmIds : dmTask[i].st = "free"

\* the pcs of _health_check between disable_debug_logging() and the end of
\* its finally block
ProbePcs == {"wait_alive", "hd_gather", "hd_wait_closed", "hd_dispatch",
             "final", "final_cont", "final_cancelled"}

\* a health-check probe is in progress
ProbeInProgress ==
    \E i \in DmIds : /\ dmTask[i].name = "periodic_alive_check"
                     /\ dmTask[i].st = "run"
                     /\ dmTask[i].pc \in ProbePcs

\* C22: whenever no health-check probe is in progress, and so after the
\* health-check task has ended for any reason, debug logging is enabled.
C22_DebugLoggingRestored == ~ProbeInProgress => ~debug_disabled

\* the entries queue_command is to keep: the strings with a character that
\* is not whitespace
Keeps(cmd) == IsStr(cmd) /\ \E i \in 1..Len(cmd) : ~IsSpace(cmd[i])

\* cmd from its first to its last character that is not whitespace
Trimmed(cmd) ==
    LET solid == {i \in 1..Len(cmd) : ~IsSpace(cmd[i])} IN
    SubSeq(cmd, Min(solid), CHOOSE i \in solid : \A j \in solid : j <= i)

\* the entries of the list that are kept, in their order, each trimmed
Expected(items) ==
    LET kept == SelectSeq(items, Keeps) IN [i \in 1..Len(kept) |-> Trimmed(kept[i])]

\* C23: queue_command on a string or a list appends the trimmed entries that
\* are strings and not empty or whitespace-only to the queue tail in their
\* order and triggers the sender; when none remains, or the input is neither
\* a string nor a list, the queue and the sender are left unchanged.
C23_QueueCommandNormalises ==
    [][\A command \in Commands : HQueueCommand(command) =>
         IF command.type \in {"str", "list"} /\ Expected(command.items) # <<>>
         THEN /\ hQueue' = hQueue \o Expected(command.items)
              /\ hReg'["process_next_command"] # NoTask
              /\ hTask'[hReg'["process_next_command"]].name = "process_next_command"
         ELSE UNCHANGED <<hQueue, hReg, hTask>>]_vars

\* a list with an entry to trim was accepted after an earlier command, and
\* the sender task is registered
C23_Witness ==
    /\ hCalls = 2
    /\ hAccepted = <<<<"A">>, <<"A">>, <<"B">>>>
    /\ hQueue # <<>>
    /\ hReg["process_next_command"] # NoTask

\* C24: while close() has not been called, a queue that holds accepted
\* commands is eventually emptied by the sender alone, with no further
\* queue_command call or inbound message needed.
C24_QueueEventuallyDrained ==
    (hQueue # <<>>) ~> (hQueue = <<>> \/ hClose.pc # "idle")

\* the send of task id returns a failure signal
SendFails(id) == HSendReturns(id) /\ ~SendReturnsTruthy

\* C25: when the send of a dequeued command fails, the sender pass ends at
\* once, the queue and the connection status are left as they are, and
\* nothing is handed to send again: at all times the frames handed to send,
\* followed by the queued commands, are the accepted commands in order, so
\* every command is handed to send at most once.
C25_SendFailureStopsPass ==
    /\ [](hWire \o Frames(hQueue) = Frames(hAccepted))
    /\ [][\A id \in HIds : SendFails(id) =>
            /\ hTask'[id].st = "done"
            /\ UNCHANGED <<hQueue, hWire, status, handler>>]_vars

\* one call queued two commands, the send of the first failed and the pass
\* has ended with the second still queued
C25_Witness ==
    /\ hCalls = 1 /\ hClose.pc = "idle"
    /\ Len(hAccepted) = 2 /\ Len(hWire) = 1 /\ Len(hQueue) = 1
    /\ \E id \in HIds : hTask[id].name = "process_next_command" /\ hTask[id].st = "done"

\* cancel_task returns or raises in this step, for a task it had found
CancelTaskEnds ==
    tmLast' # tmLast /\ tmLast'.op = "cancel_task" /\ tmLast'.ret # NoTask

\* C26: cancel_task(name) on a registered task removes the name from the
\* registry, requests the cancellation of a task that has not settled and
\* waits; it ends only once the task has settled, raising CancelledError
\* when the task settled as cancelled, the task's exception when it raised
\* one, and nothing when it returned.  For a name that is not registered
\* the call returns at once and changes neither the registry nor the tasks.
C26_CancelTask ==
    [][/\ \A n \in TmNames : TmCancelTask(n) =>
             IF tmReg[n] = NoTask
             THEN /\ UNCHANGED <<tmReg, tmTask, tmCaller>>
                  /\ tmLast'.op = "cancel_task" /\ tmLast'.raised = "none"
             ELSE /\ tmReg'[n] = NoTask
                  /\ tmTask[tmReg[n]].st = "run" =>
                        /\ tmTask'[tmReg[n]].creq
                        /\ tmCaller' = [pc |-> "cancel_task", wait |-> {tmReg[n]}]
                        /\ tmLast' = tmLast
       /\ CancelTaskEnds =>
             LET t == tmTask[tmLast'.ret] IN
             /\ t.st \in {"done", "gone"}
             /\ tmLast'.raised = CASE t.out = "cancelled" -> "cancelled"
                                    [] t.out = "error" -> "error"
                                    [] OTHER -> "none"]_vars

\* cancel_task has raised CancelledError for a task that it cancelled while
\* the task was running, and the name is free
C26_Witness ==
    /\ tmLast.op = "cancel_task" /\ tmLast.raised = "cancelled"
    /\ tmLast.ret # NoTask
    /\ tmTask[tmLast.ret].st = "gone" /\ tmTask[tmLast.ret].out = "cancelled"
    /\ tmReg[tmLast.name] = NoTask
    /\ tmCaller.pc = "idle"

\* cancel_all_tasks returns or raises in this step
CancelAllEnds == tmLast' # tmLast /\ tmLast'.op = "cancel_all_tasks"

\* C27: when cancel_all_tasks returns or raises, the registry is empty and
\* no task started through add_task is still running; CancelledError is
\* raised if a task it awaited settled as cancelled.
C27_CancelAllLeavesNothingRunning ==
    [][CancelAllEnds =>
         /\ \A n \in TmNames : tmReg'[n] = NoTask
         /\ \A id \in TmIds : tmTask'[id].st # "run"
         /\ (\E id \in tmCaller.wait : tmTask[id].out = "cancelled")
               => tmLast'.raised = "cancelled"]_vars

\* task i calls open() in this step: a reconnect-loop open attempt begins
OpenAttempt(i) ==
    /\ dmTask'[i].name = "reconnect_loop" /\ dmTask'[i].pc = "opening"
    /\ ~(dmTask[i].name = "reconnect_loop" /\ dmTask[i].pc = "opening")

\* close() returns in this step
CloseCompletes == dmClose.pc # "done" /\ dmClose'.pc = "done"

\* C28: once close() was requested the closing flag stays true (so a
\* further close() returns at its first check) and no reconnect loop begins
\* an open attempt; when close() completes the status is DISCONNECTED, the
\* handler is discarded and the system state (liveness) is reset.
C28_ClosingAbsorbing ==
    [][/\ closing => closing'
       /\ closing => \A i \in DmIds : ~OpenAttempt(i)
       /\ CloseCompletes => status' = "DISCONNECTED" /\ handler' = None /\ ~is_alive'
      ]_vars

\* the positions at which a synchronisation keyword occurs in the buffer,
\* whatever the case
KeywordHits(buf) ==
    {Find(Lower(buf), Lower(SyncKeywords[k])) : k \in 1..Len(SyncKeywords)} \ {0}

\* C29: adjust_buffer leaves the buffer starting at the first occurrence of
\* any synchronisation keyword, matched case-insensitively; a buffer with no
\* keyword and the buffer "#!" are left unchanged.
C29_TrimsToFirstKeyword ==
    cxOut.op = "adjust_buffer" =>
        cxOut.buf = IF KeywordHits(cxIn.buf) = {} \/ cxIn.buf = <<"#", "!">>
                    THEN cxIn.buf
                    ELSE From(cxIn.buf, Min(KeywordHits(cxIn.buf)))

\* C30: the encoding "!" + name + "," + join(fields, ",") + "\n" of a name
\* and a field list without "!" and "," decodes to that name and exactly
\* those fields, the empty list included.
C30_RoundTrip ==
    cxOut.op = "decode" => cxOut.name = cxIn.name /\ cxOut.fields = cxIn.fields

\* C31: "POWER OFF." decodes to the power status name S02 with the fields
\* ["0"], and "Power-up complete." to S02 with the fields ["1"].
C31_PowerSubstitutions ==
    cxOut.op = "parse" =>
        /\ cxIn.buf = PowerOffText => cxOut.name = <<"S", "0", "2">> /\ cxOut.fields = << <<"0">> >>
        /\ cxIn.buf = PowerUpText => cxOut.name = <<"S", "0", "2">> /\ cxOut.fields = << <<"1">> >>

\* "Power-up complete." was parsed
C31_Witness ==
    /\ cxOut.op = "parse" /\ cxIn.buf = PowerUpText
    /\ cxOut.name = STATUS_POWER /\ cxOut.fields = << <<"1">> >>

\* C32: whatever happened before, the step that handles a StatusAlive
\* response with the field "Ok" leaves is_alive true (so that the alive
\* check waiting for it returns true), also after a DISCONNECTED event
\* cleared a liveness that was true.
C32_AliveFollowsResponse ==
    [][\A i \in DmIds :
         (dmTask[i].arg = "StatusAlive" /\ HandleDataReceived(i)) => is_alive'
      ]_vars

\* _handle_disconnection of task i resumes from a handler.close() that raised
CloseRaised(i) ==
    /\ dmTask[i].pc = "hd_wait_closed"
    /\ dmTask'[i].arg = "close_raised"

HdPcs == {"hd_gather", "hd_wait_closed", "hd_dispatch", "final"}

\* C34: when the health check wakes from its sleep, recent data means no
\* probe (no query, no logging change) and back to the loop head; otherwise
\* one alive check is started.  A check that succeeds lets the loop go on; a
\* check that fails goes to disconnection handling, after which the loop is
\* never resumed.
C34_HealthCheckCycle ==
    [][\A i \in DmIds :
         (dmTask[i].name = "periodic_alive_check" /\ dmTask[i].st = "run") =>
           /\ (dmTask[i].pc = "sleep" /\ ~dmTask[i].creq
                  /\ DmSet(HealthAfterSleep(i, "recent"))) =>
                 /\ dmTask'[i].pc = "sleep" \/ dmTask'[i].st = "done"
                 /\ UNCHANGED <<alive_event, debug_disabled, dmEvt, hdl>>
           /\ \A age \in DataAges \ {"recent"} :
                 (dmTask[i].pc = "sleep" /\ ~dmTask[i].creq
                    /\ DmSet(HealthAfterSleep(i, age))) =>
                   IF is_connected
                   THEN dmTask'[i].pc = "wait_alive" /\ ~alive_event'
                   ELSE dmTask'[i].pc \in HdPcs
           /\ (dmTask[i].pc = "wait_alive" /\ ~dmTask[i].creq /\ HealthCheck(i)) =>
                 IF alive_event /\ is_alive
                 THEN dmTask'[i].pc = "final_cont"
                 ELSE dmTask'[i].pc \in HdPcs
           /\ dmTask[i].pc \in HdPcs =>
                 \/ dmTask'[i].pc \in HdPcs \cup {"final_cancelled"}
                 \/ dmTask'[i].st # "run"
      ]_vars

\* a probe failed on a live connection: _handle_disconnection has run and
\* returned, and the health check is about to end
C34_Witness ==
    \E i \in DmIds :
        /\ dmTask[i].name = "periodic_alive_check" /\ dmTask[i].st = "run"
        /\ dmTask[i].pc = "final" /\ dmTask[i].arg = ""
        /\ status = "DISCONNECTED"

\* C35: at its loop head (first entered, or after the sleep that follows a
\* failed check) _retry_alive_check ends without any check when the device
\* is alive or the connection is not CONNECTED, and starts one alive check
\* otherwise; a check that succeeds ends the task, a check that fails or
\* times out leads to the sleep before the next attempt.
C35_RetryAliveCheck ==
    [][\A i \in DmIds :
         (dmTask[i].name = "retry_alive_check" /\ dmTask[i].st = "run"
            /\ ~dmTask[i].creq /\ RetryAliveCheck(i)) =>
           /\ dmTask[i].pc \in {"top", "sleep"} =>
                 IF is_alive \/ status # "CONNECTED"
                 THEN dmTask'[i].st = "done" /\ UNCHANGED alive_event
                 ELSE dmTask'[i].pc = "wait_alive" /\ ~alive_event'
           /\ dmTask[i].pc = "wait_alive" =>
                 IF alive_event /\ is_alive
                 THEN dmTask'[i].st = "done"
                 ELSE dmTask'[i].st = "run" /\ dmTask'[i].pc = "sleep"
      ]_vars

\* a retry loop found the connection gone at its loop head: it has returned
\* although the device is not alive
C35_Witness ==
    \E i \in DmIds :
        /\ dmTask[i].name = "retry_alive_check" /\ dmTask[i].st = "done"
        /\ dmTask[i].out = "ok"
        /\ ~is_alive /\ status = "DISCONNECTED" /\ ~closing

\* C36: the startup-sync task is the one created at construction and no step
\* starts another; it leaves its poll only with the device alive and a status
\* known, it enters the get_all burst only from its poll with the status read
\* there ACTIVE, and once the burst is over it has returned, so the burst is
\* issued at most once
C36_StartupSyncOnce ==
    [][\A i \in DmIds :
          LET t == dmTask[i]
              u == dmTask'[i]
              startup(x) == x.name = "run_once_at_startup" /\ x.st = "run"
          IN
          /\ startup(u) => startup(t)
          /\ (startup(t) /\ t.pc = "poll" /\ u.pc # "poll" /\ u.out # "cancelled")
                => is_alive /\ (u.pc = "get_all" \/ u.st = "done")
          /\ u.pc = "get_all"
                => /\ startup(t) /\ startup(u)
                   /\ u.arg = "Active"
                   /\ t.pc \in {"poll", "get_all"}
          /\ (startup(t) /\ t.pc = "get_all" /\ u # t /\ u.pc = "get_all")
                => u = [t EXCEPT !.creq = TRUE]
          /\ Cardinality({j \in DmIds : startup(dmTask'[j])}) <= 1]_vars

\* the startup-sync task has read ACTIVE on a connected, alive device and is
\* sending its burst
C36_Witness ==
    \E i \in DmIds :
        /\ dmTask[i].name = "run_once_at_startup" /\ dmTask[i].pc = "get_all"
        /\ dmTask[i].arg = "Active"
        /\ is_alive /\ status = "CONNECTED"

\* C37: under any interleaving of add_task, cancel_task, cancel_all_tasks and
\* task completion, every task that runs and was not asked to cancel is the
\* registry entry of its name, and the completion callback of a task leaves
\* the entry of another task of the same name in place
C37_RegistryConsistent ==
    [][/\ \A i \in TmIds :
             (tmTask'[i].st = "run" /\ ~tmTask'[i].creq)
                => tmReg'[tmTask'[i].name] = i
       /\ \A i \in TmIds :
             (TmCompletion(i) /\ tmReg[tmTask[i].name] # i)
                => tmReg'[tmTask[i].name] = tmReg[tmTask[i].name]]_vars

\* C39: DeviceManager instances are independent: two instances have
\* different dispatchers, task registries and liveness signals, an event
\* dispatched for one instance's connection invokes only that instance's
\* handler, and the registry an instance uses holds only its own tasks
C39_InstancesIndependent ==
    /\ \A a, b \in TwIds :
          (a # b /\ twObj[a].made /\ twObj[b].made)
             => /\ twObj[a].dispatcher # twObj[b].dispatcher
                /\ twObj[a].task_manager # twObj[b].task_manager
                /\ twObj[a].alive_event # twObj[b].alive_event
    /\ \A c \in twCalls : c[1] = c[2]
    /\ \A m \in TwIds, n \in TwNames :
          twObj[m].made => twReg[twObj[m].task_manager][n] \in {NoTask, m}

\* C40: a call of enable_reconnect leaves the connection status, the handler,
\* the closing flag and the task registry with its tasks as they are; with a
\* bool the flag becomes that value and nothing is raised, with the value it
\* already has nothing at all changes, and with a non-bool TypeError is
\* raised and the flag keeps its value
C40_EnableReconnectFrame ==
    [][\A enable \in EnableArgs :
          RlEnableReconnect(enable) =>
             /\ UNCHANGED <<status, handler, closing, dmReg, dmTask>>
             /\ reconnect_enabled' = IF IsBool(enable) THEN BoolOf(enable)
                                     ELSE reconnect_enabled
             /\ EnableReconnect(enable).raised
                   = IF IsBool(enable) THEN "none" ELSE "TypeError"
             /\ (IsBool(enable) /\ reconnect_enabled = BoolOf(enable))
                   => UNCHANGED vars]_vars

\* auto-reconnect was switched off while the device was disconnected and a
\* reconnect loop was under way: the loop is still registered and running
C40_Witness ==
    /\ ~reconnect_enabled /\ status = "DISCONNECTED" /\ ~closing
    /\ dmReg["reconnect_loop"] # NoTask
    /\ dmTask[dmReg["reconnect_loop"]].st = "run"
    /\ dmTask[dmReg["reconnect_loop"]].pc \in {"opening", "sleep"}
    /\ ~dmTask[dmReg["reconnect_loop"]].creq

\* C38: when an alive check on a connected device returns true (the answer
\* came and is_alive is set), a "periodic_alive_check" task is running
\* afterwards, and at no time do two such tasks run
C38_AliveKeepsHealthCheck ==
    [][/\ \A i \in DmIds :
             (/\ dmTask[i].name \in {"retry_alive_check", "periodic_alive_check"}
              /\ dmTask[i].st = "run" /\ ~dmTask[i].creq
              /\ dmTask[i].pc = "wait_alive" /\ dmTask'[i].pc # "wait_alive"
              /\ alive_event /\ is_alive /\ is_connected)
                => \E j \in DmIds : /\ dmTask'[j].name = "periodic_alive_check"
                                     /\ dmTask'[j].st = "run"
       /\ Cardinality({j \in DmIds : /\ dmTask'[j].name = "periodic_alive_check"
                                      /\ dmTask'[j].st = "run"}) <= 1]_vars
====
